---- MODULE Spec2Model ----
(***************************************************************************)
(* A model of the merfish3d-analysis driver scripts:                       *)
(*   - the evaluation engine, calculate_F1_with_radius                     *)
(*     (examples/igfl_simulated_data_1round/04_calculate_F1.py and the     *)
(*     copy in sweep_f1.py);                                               *)
(*   - the pixel-decoding drivers (04_pixeldecode.py, sweep_f1.py,         *)
(*     view_decoded_tile.py) around the PixelDecoder class;                *)
(*   - the registration drivers (02_register_and_deconvolve.py of          *)
(*     igfl_abberior and zhuang_lab);                                      *)
(*   - the conversion scripts (01_convert_to_datastore.py and              *)
(*     01_convert_simulation_to_datastore.py);                             *)
(*   - the parameter sweep, sweep_decode_params of sweep_f1.py;            *)
(*   - the per-pixel decoding and FDR filtering of one tile, as section    *)
(*     4.3 of the specification describes the PixelDecoder class.          *)
(*                                                                         *)
(* Python lists are modelled as sequences, so indices are 1-based here     *)
(* where the source is 0-based.  Coordinates are points of an integer      *)
(* grid and floats are exact rationals <<numerator, denominator>>.         *)
(***************************************************************************)
EXTENDS Integers, Sequences, FiniteSets, TLC

VARIABLES
    \* ---- calculate_F1_with_radius: arguments
    qi2lab_coords, qi2lab_gene_ids, gt_coords, gt_gene_ids, radius,
    \* ---- calculate_F1_with_radius: locals
    i,                   \* number of decoded spots the for loop has processed
    nearby_indices,      \* last value returned by gt_tree.query_ball_point
    matched_gt_indices, true_positives, false_positives, false_negatives,
    results,             \* dict returned by the 04_calculate_F1.py copy
    results_sweep,       \* dict returned by the sweep_f1.py copy
    pc,                  \* position in calculate_F1_with_radius
    \* ---- the pixel-decoding drivers
    decode_script,       \* the driver that runs
    decode_pc,           \* its position
    tile_idx_arg,        \* view_decoded_tile's tile_idx
    normalization,       \* normalization vectors the datastore holds
    tile_stage,          \* decoder stage of every tile
    decode_raised,       \* exception the driver ended with
    \* ---- the registration drivers (02_register_and_deconvolve.py)
    reg_script,          \* the driver whose __main__ runs
    reg_pc,              \* its position
    datastore_state,     \* the datastore's stage flags
    registered_images,   \* tiles that have a local registered image
    register_computations, \* per tile, registrations DataRegistration computed
    tiles_done,          \* register_all_tiles: tiles it has gone through
    msims,               \* global_register_data: the list msims
    reg_stage,           \* registration.register calls made
    tile_idx,            \* iterations of the transform-saving loop made
    global_coord_xforms, \* per tile, the affine saved on the datastore
    fused,               \* the fusion.fuse call of this run
    global_fiducial_image, \* the datastore holds a fused image
    \* ---- the conversion scripts (01_convert_*.py)
    conv_script,         \* the conversion function that runs
    conv_pc,             \* its position
    dye_order,           \* list(df_experiment_order.columns)
    experiment_order,    \* df_experiment_order.values
    num_bits,            \* number of bit columns of the codebook
    round_idx,           \* round_idx of the loop over the rounds
    conv_tile_idx,       \* tile_idx of the loop over the tiles of a round
    image_file,          \* what image_path of this iteration holds
    fiducial_saves,      \* save_local_corrected_image(..., round=...) calls
    readout_saves,       \* save_local_corrected_image(..., bit=...) calls
    \* ---- sweep_decode_params (sweep_f1.py)
    sweep_pc,            \* position in sweep_decode_params and the plot
    spotmap_threshold_step, \* argument of sweep_decode_params, as <<step>>
    spotmap_idx,         \* values of spotmap_values the outer loop is through
    mag_idx,             \* values of mag_values the inner loop is through
    result,              \* the local result of this iteration
    sweep_results,       \* the dict results
    results_file,        \* what the file at save_path holds
    decoded_table,       \* configuration the datastore's decoded spots are of
    highlighted,         \* cells the F1 heatmap draws in bold
    \* ---- the decoding of one tile's pixels (PixelDecoder)
    pixel_stage,         \* decoder stage of the tile
    pixel_vectors,       \* normalized intensity vector of every pixel
    pixels_decoded,      \* number of pixels the decoding has gone through
    true_gene_ids,       \* what every pixel really holds
    magnitude_threshold, fdr_target,
    decoded_spots,       \* the spots decoding produced
    filtered_spots,      \* the spots FDR filtering retained
    \* ---- calculate_F1 (04_calculate_F1.py and sweep_f1.py)
    calc_script,         \* the copy of calculate_F1 that runs
    calc_pc,             \* its position
    gene_ids,            \* datastore.load_codebook_parsed()[0]
    global_decoded_spots, \* datastore.load_global_filtered_decoded_spots()
    gt_spots,            \* pd.read_csv(gt_path)
    voxel_size_zyx_um    \* datastore.voxel_size_zyx_um

f1vars == <<qi2lab_coords, qi2lab_gene_ids, gt_coords, gt_gene_ids, radius, i,
            nearby_indices, matched_gt_indices, true_positives, false_positives,
            false_negatives, results, results_sweep, pc>>

dvars == <<decode_script, decode_pc, tile_idx_arg, normalization, tile_stage,
           decode_raised>>

rvars == <<reg_script, reg_pc, datastore_state, registered_images,
           register_computations, tiles_done,
           msims, reg_stage, tile_idx, global_coord_xforms, fused,
           global_fiducial_image>>

cvars == <<conv_script, conv_pc, dye_order, experiment_order, num_bits, round_idx,
           conv_tile_idx, image_file, fiducial_saves, readout_saves>>

svars == <<sweep_pc, spotmap_threshold_step, spotmap_idx, mag_idx, result,
           sweep_results, results_file, decoded_table, highlighted>>

pvars == <<pixel_stage, pixel_vectors, pixels_decoded, true_gene_ids, magnitude_threshold,
           fdr_target, decoded_spots, filtered_spots>>

gvars == <<calc_script, calc_pc, gene_ids, global_decoded_spots, gt_spots,
           voxel_size_zyx_um>>

vars == <<f1vars, dvars, rvars, cvars, svars, pvars, gvars>>

\* what the actions of one part of the model leave alone
notF1 == <<dvars, rvars, cvars, svars, pvars, gvars>>
notDecode == <<f1vars, rvars, cvars, svars, pvars, gvars>>
notReg == <<f1vars, dvars, cvars, svars, pvars, gvars>>
notConvert == <<f1vars, dvars, rvars, svars, pvars, gvars>>
notSweep == <<f1vars, dvars, rvars, cvars, pvars, gvars>>
notPixel == <<f1vars, dvars, rvars, cvars, svars, gvars>>

----------------------------------------------------------------------------
(* Bounds of the evaluation model.                                          *)

\* largest number of decoded spots
MaxDecoded == 2

\* largest number of ground-truth points
MaxGt == 2

\* z, y, x positions the spots are drawn from: squared distances 1, 4 and 5,
\* so that with radius 2 the first point is within radius of the two others
\* while those are not within radius of each other.
Points == {<<0, 0, 0>>, <<0, 0, 1>>, <<0, 2, 0>>}

GeneIds == {"geneA", "geneB"}

Radii == {1, 2}

(* Bounds of the decoding model.                                            *)

\* number of tiles of the datastore the decoder runs on
NumDecodeTiles == 3

(* Bounds of the registration model.                                        *)

\* number of tiles of the datastore that is registered
NumTiles == 2

----------------------------------------------------------------------------
(* Exact rational arithmetic standing for Python's float arithmetic.        *)

RECURSIVE GCD(_, _)
GCD(a, b) == IF b = 0 THEN a ELSE GCD(b, a % b)

\* the outcome of an expression whose evaluation raised ZeroDivisionError
ZeroDivisionError == <<0, 0>>

Zero == <<0, 1>>

IsError(q) == q[2] = 0

Ratio(n, d) == LET g == GCD(n, d) IN <<n \div g, d \div g>>

\* Python's a / b on non-negative numbers: raises when b is zero
Divide(a, b) ==
    IF IsError(a) \/ IsError(b) THEN ZeroDivisionError
    ELSE IF b[1] = 0 THEN ZeroDivisionError
    ELSE Ratio(a[1] * b[2], a[2] * b[1])

Times(a, b) ==
    IF IsError(a) \/ IsError(b) THEN ZeroDivisionError
    ELSE Ratio(a[1] * b[1], a[2] * b[2])

Plus(a, b) ==
    IF IsError(a) \/ IsError(b) THEN ZeroDivisionError
    ELSE Ratio(a[1] * b[2] + b[1] * a[2], a[2] * b[2])

Int2Q(n) == <<n, 1>>

\* a > 0 for a non-negative rational
Positive(a) == ~IsError(a) /\ a[1] > 0

\* Python's round(x, 3): nearest multiple of 1/1000, ties to the even one
Round3(a) ==
    IF IsError(a) THEN ZeroDivisionError
    ELSE LET n == 1000 * a[1]
             fl == n \div a[2]
             rem == n % a[2]
             m == IF 2 * rem < a[2] THEN fl
                  ELSE IF 2 * rem > a[2] THEN fl + 1
                  ELSE IF fl % 2 = 0 THEN fl ELSE fl + 1
         IN Ratio(m, 1000)

----------------------------------------------------------------------------
(* calculate_F1_with_radius                                                 *)

Dist2(a, b) ==
    (a[1] - b[1]) * (a[1] - b[1]) + (a[2] - b[2]) * (a[2] - b[2])
        + (a[3] - b[3]) * (a[3] - b[3])

\* the ground-truth indices gt_tree.query_ball_point(query_coord, r) returns:
\* every point at Euclidean distance <= r
InBall(query_coord, r) ==
    {idx \in 1..Len(gt_coords) : Dist2(gt_coords[idx], query_coord) <= r * r}

\* the orders in which query_ball_point may list them: a single-point query
\* is not sorted, its order is that of the tree traversal
Orderings(S) ==
    {s \in [1..Cardinality(S) -> S] : \A a, b \in 1..Cardinality(S) : s[a] = s[b] => a = b}

\* the inner loop without its `if idx in matched_gt_indices: continue`
RECURSIVE FirstMatchNoSkip(_, _, _, _)
FirstMatchNoSkip(nearby, k, matched, qi2lab_gene_id) ==
    IF k > Len(nearby) THEN 0
    ELSE IF gt_gene_ids[nearby[k]] = qi2lab_gene_id THEN nearby[k]
    ELSE FirstMatchNoSkip(nearby, k + 1, matched, qi2lab_gene_id)

\* the inner loop without its gene comparison
RECURSIVE FirstMatchAnyGene(_, _, _, _)
FirstMatchAnyGene(nearby, k, matched, qi2lab_gene_id) ==
    IF k > Len(nearby) THEN 0
    ELSE IF nearby[k] \in matched
        THEN FirstMatchAnyGene(nearby, k + 1, matched, qi2lab_gene_id)
    ELSE nearby[k]

\* the inner loop without its `break`: the last acceptable index wins
RECURSIVE FirstMatchNoBreak(_, _, _, _)
FirstMatchNoBreak(nearby, k, matched, qi2lab_gene_id) ==
    IF k > Len(nearby) THEN 0
    ELSE LET later == FirstMatchNoBreak(nearby, k + 1, matched, qi2lab_gene_id)
         IN IF later # 0 THEN later
            ELSE IF nearby[k] \notin matched /\ gt_gene_ids[nearby[k]] = qi2lab_gene_id
                 THEN nearby[k]
            ELSE 0

\* the inner loop `for idx in nearby_indices`, from position k on: the index
\* it accepts, or 0 when it ends with match_found = False
RECURSIVE FirstMatch(_, _, _, _)
FirstMatch(nearby, k, matched, qi2lab_gene_id) ==
    IF k > Len(nearby) THEN 0
    ELSE IF nearby[k] \in matched
        THEN FirstMatch(nearby, k + 1, matched, qi2lab_gene_id)
    ELSE IF gt_gene_ids[nearby[k]] = qi2lab_gene_id THEN nearby[k]
    ELSE FirstMatch(nearby, k + 1, matched, qi2lab_gene_id)

\* false negatives taken to be the consumed points instead of the others
FalseNegativesConsumed(n_gt, matched) == Cardinality(matched)

FalseNegatives(n_gt, matched) == n_gt - Cardinality(matched)

\* precision without its `if (true_positives + false_positives) > 0 else 0`
PrecisionUnguarded(tp, fp) == Divide(Int2Q(tp), Int2Q(tp + fp))

Precision(tp, fp) ==
    IF tp + fp > 0 THEN Divide(Int2Q(tp), Int2Q(tp + fp)) ELSE Zero

Recall(tp, fn) ==
    IF tp + fn > 0 THEN Divide(Int2Q(tp), Int2Q(tp + fn)) ELSE Zero

\* the arithmetic mean in place of the harmonic one
F1ScoreArithmetic(precision, recall) ==
    Divide(Plus(precision, recall), Int2Q(2))

F1Score(precision, recall) ==
    IF Positive(Plus(precision, recall))
    THEN Divide(Times(Times(Int2Q(2), precision), recall), Plus(precision, recall))
    ELSE Zero

\* the dict returned by 04_calculate_F1.py
Results04(tp, fp, fn) ==
    LET precision == Precision(tp, fp)
        recall == Recall(tp, fn)
        f1 == F1Score(precision, recall)
    IN [F1 |-> f1, Precision |-> precision, Recall |-> recall,
        TP |-> tp, FP |-> fp, FN |-> fn]

\* the sweep dict without round(., 3): what the check of C26 must tell apart
ResultsSweepUnrounded(tp, fp, fn) ==
    LET precision == Precision(tp, fp)
        recall == Recall(tp, fn)
        f1 == F1Score(precision, recall)
    IN [F1 |-> f1, Precision |-> precision, Recall |-> recall,
        TP |-> tp, FP |-> fp, FN |-> fn]

\* the dict returned by sweep_f1.py: the three scores go through round(., 3)
ResultsSweep(tp, fp, fn) ==
    LET precision == Precision(tp, fp)
        recall == Recall(tp, fn)
        f1 == F1Score(precision, recall)
    IN [F1 |-> Round3(f1), Precision |-> Round3(precision),
        Recall |-> Round3(recall), TP |-> tp, FP |-> fp, FN |-> fn]

NoResults == [F1 |-> Zero, Precision |-> Zero, Recall |-> Zero,
              TP |-> 0, FP |-> 0, FN |-> 0]

Spots(max) ==
    UNION {[1..n -> Points \X GeneIds] : n \in 0..max}


\* one iteration of `for i, query_coord in enumerate(qi2lab_coords)`
F1Iterate ==
    /\ pc = "loop"
    /\ i < Len(qi2lab_coords)
    /\ \E nearby \in Orderings(InBall(qi2lab_coords[i + 1], radius)) :
        LET idx == FirstMatch(nearby, 1, matched_gt_indices, qi2lab_gene_ids[i + 1])
        IN /\ nearby_indices' = nearby
           /\ IF nearby = <<>>
              THEN /\ false_positives' = false_positives + 1
                   /\ UNCHANGED <<true_positives, matched_gt_indices>>
              ELSE IF idx # 0
              THEN /\ true_positives' = true_positives + 1
                   /\ matched_gt_indices' = matched_gt_indices \cup {idx}
                   /\ UNCHANGED false_positives
              ELSE /\ false_positives' = false_positives + 1
                   /\ UNCHANGED <<true_positives, matched_gt_indices>>
    /\ i' = i + 1
    /\ UNCHANGED <<qi2lab_coords, qi2lab_gene_ids, gt_coords, gt_gene_ids, radius,
                   false_negatives, results, results_sweep, pc>>
    /\ UNCHANGED notF1

\* the statements after the loop, up to the return
F1Finish ==
    /\ pc = "loop"
    /\ i = Len(qi2lab_coords)
    /\ LET fn == FalseNegatives(Len(gt_gene_ids), matched_gt_indices)
       IN /\ false_negatives' = fn
          /\ results' = Results04(true_positives, false_positives, fn)
          /\ results_sweep' = ResultsSweep(true_positives, false_positives, fn)
    /\ pc' = "done"
    /\ UNCHANGED <<qi2lab_coords, qi2lab_gene_ids, gt_coords, gt_gene_ids, radius,
                   i, nearby_indices, matched_gt_indices, true_positives,
                   false_positives>>
    /\ UNCHANGED notF1

F1Next == F1Iterate \/ F1Finish

----------------------------------------------------------------------------
(* The pixel-decoding drivers: decode_pixels of 04_pixeldecode.py and of    *)
(* sweep_f1.py, and view_decoded_tile.  The PixelDecoder class they drive   *)
(* is not among the source files: its methods follow section 4.3.           *)

DecodeTiles == 1..NumDecodeTiles

DecodeScripts == {"04_pixeldecode", "sweep_f1", "view_decoded_tile"}

Stages == <<"UNPROCESSED", "NORMALIZED", "DECODED", "FILTERED", "PERSISTED">>

StageIndex(stage) == CHOOSE k \in 1..Len(Stages) : Stages[k] = stage

NextStage(stage) == Stages[StageIndex(stage) + 1]

\* the datastore holds a usable normalization vector: calibration has run
Calibrated(norm) == norm = "iterative"



\* datastore = qi2labDataStore(...); decoder = PixelDecoder(...)
NewPixelDecoder ==
    /\ decode_pc = "start"
    /\ decode_pc' = "constructed"
    /\ UNCHANGED <<decode_script, tile_idx_arg, normalization, tile_stage, decode_raised>>
    /\ UNCHANGED notDecode

\* decoder._global_normalization_vectors(), which sweep_f1.py alone calls
GlobalNormalizationVectors ==
    /\ decode_script = "sweep_f1"
    /\ decode_pc = "constructed"
    /\ normalization' = IF normalization = "none" THEN "global" ELSE normalization
    /\ decode_pc' = "global_normalized"
    /\ UNCHANGED <<decode_script, tile_idx_arg, tile_stage, decode_raised>>
    /\ UNCHANGED notDecode

\* the statement of decode_pixels that follows the position pc_now
AfterConstruction(script, pc_now) ==
    IF script = "sweep_f1" THEN pc_now = "global_normalized"
    ELSE pc_now = "constructed"

\* decoder.optimize_normalization_by_decoding(...) is entered
OptimizeNormalizationStart ==
    /\ decode_script \in {"04_pixeldecode", "sweep_f1"}
    /\ AfterConstruction(decode_script, decode_pc)
    /\ decode_pc' = "optimizing"
    /\ UNCHANGED <<decode_script, tile_idx_arg, normalization, tile_stage, decode_raised>>
    /\ UNCHANGED notDecode

\* its n_iterations = 1 iteration over n_random_tiles = 1 tile, and its return
OptimizeNormalizationReturn ==
    /\ decode_pc = "optimizing"
    /\ normalization' = "iterative"
    /\ decode_pc' = "optimized"
    /\ UNCHANGED <<decode_script, tile_idx_arg, tile_stage, decode_raised>>
    /\ UNCHANGED notDecode

\* decode_pixels started decode_all_tiles before the position pc_now = "optimized"
DecodeAllTooEarly(script, pc_now) ==
    AfterConstruction(script, pc_now) \/ pc_now = "optimized"

\* the position at which decode_pixels calls decoder.decode_all_tiles(...)
DecodeAllCallSite(script, pc_now) == pc_now = "optimized"

\* decode_all_tiles proceeding on whatever vectors there are
DecodeAllUnchecked(norm) == "decoding_all"

\* decode_all_tiles is entered: without a usable normalization vector it fails
DecodeAllEntry(norm) ==
    IF Calibrated(norm) THEN "decoding_all" ELSE "raised"

DecodeAllTilesStart ==
    /\ decode_script \in {"04_pixeldecode", "sweep_f1"}
    /\ DecodeAllCallSite(decode_script, decode_pc)
    /\ decode_pc' = DecodeAllEntry(normalization)
    /\ decode_raised' = IF decode_pc' = "raised" THEN "NotCalibratedError" ELSE "none"
    /\ UNCHANGED <<decode_script, tile_idx_arg, normalization, tile_stage>>
    /\ UNCHANGED notDecode

\* decode_one_tile proceeding with default normalization
DecodeOneUnchecked(norm) == "decoding_one"

\* decode_one_tile is entered: without a usable normalization vector it fails
DecodeOneEntry(norm) ==
    IF Calibrated(norm) THEN "decoding_one" ELSE "raised"

\* view_decoded_tile: decoder.decode_one_tile(tile_idx=tile_idx, ...); nothing
\* of the driver catches what it raises
DecodeOneTileStart ==
    /\ decode_script = "view_decoded_tile"
    /\ decode_pc = "constructed"
    /\ decode_pc' = DecodeOneEntry(normalization)
    /\ decode_raised' = IF decode_pc' = "raised" THEN "NotCalibratedError" ELSE "none"
    /\ UNCHANGED <<decode_script, tile_idx_arg, normalization, tile_stage>>
    /\ UNCHANGED notDecode

\* the stage a tile in `stage` is taken to with a stage left out
AdvanceSkipping(stage) ==
    IF StageIndex(stage) + 2 <= Len(Stages) THEN Stages[StageIndex(stage) + 2]
    ELSE NextStage(stage)

\* the stage a tile in `stage` is taken to
Advance(stage) == NextStage(stage)

\* decode_all_tiles takes a tile one stage further; tiles are independent
DecodeAllTilesStep(t) ==
    /\ decode_pc = "decoding_all"
    /\ tile_stage[t] # "PERSISTED"
    /\ tile_stage' = [tile_stage EXCEPT ![t] = Advance(tile_stage[t])]
    /\ UNCHANGED <<decode_script, decode_pc, tile_idx_arg, normalization, decode_raised>>
    /\ UNCHANGED notDecode

DecodeAllTilesReturn ==
    /\ decode_pc = "decoding_all"
    /\ \A t \in DecodeTiles : tile_stage[t] = "PERSISTED"
    /\ decode_pc' = "done"
    /\ UNCHANGED <<decode_script, tile_idx_arg, normalization, tile_stage, decode_raised>>
    /\ UNCHANGED notDecode

\* decode_one_tile normalizes and decodes its tile, for display
DecodeOneTileStep ==
    /\ decode_pc = "decoding_one"
    /\ tile_stage[tile_idx_arg] \in {"UNPROCESSED", "NORMALIZED"}
    /\ tile_stage' = [tile_stage EXCEPT ![tile_idx_arg] = Advance(tile_stage[tile_idx_arg])]
    /\ UNCHANGED <<decode_script, decode_pc, tile_idx_arg, normalization, decode_raised>>
    /\ UNCHANGED notDecode

DecodeOneTileReturn ==
    /\ decode_pc = "decoding_one"
    /\ tile_stage[tile_idx_arg] = "DECODED"
    /\ decode_pc' = "done"
    /\ UNCHANGED <<decode_script, tile_idx_arg, normalization, tile_stage, decode_raised>>
    /\ UNCHANGED notDecode

DecodeNext ==
    \/ NewPixelDecoder
    \/ GlobalNormalizationVectors
    \/ OptimizeNormalizationStart
    \/ OptimizeNormalizationReturn
    \/ DecodeAllTilesStart
    \/ DecodeOneTileStart
    \/ \E t \in DecodeTiles : DecodeAllTilesStep(t)
    \/ DecodeAllTilesReturn
    \/ DecodeOneTileStep
    \/ DecodeOneTileReturn



----------------------------------------------------------------------------
(* The registration drivers: local_register_data, global_register_data and  *)
(* the __main__ blocks of igfl_abberior/02_register_and_deconvolve.py and   *)
(* zhuang_lab/02_register_and_deconvolve.py.  DataRegistration and the      *)
(* datastore class are not among the source files.                          *)

\* a datastore that was just created, and one the whole pipeline ran on
NewDatastoreState ==
    [Calibrations |-> FALSE, Corrected |-> FALSE, LocalRegistered |-> FALSE,
     GlobalRegistered |-> FALSE, Fused |-> FALSE]

FusedDatastoreState ==
    [Calibrations |-> TRUE, Corrected |-> TRUE, LocalRegistered |-> TRUE,
     GlobalRegistered |-> TRUE, Fused |-> TRUE]

\* the flags are written anew, only the named one set
UpdatedAlone(state, flag) == [NewDatastoreState EXCEPT ![flag] = TRUE]

\* datastore_state = datastore.datastore_state
\* datastore_state.update({flag: True})
\* datastore.datastore_state = datastore_state
Updated(state, flag) == [state EXCEPT ![flag] = TRUE]

\* datastore.tile_ids; tile_idx of the source is the 0-based position
Tiles == 1..NumTiles

\* largest number of times a tile's registration is computed or saved
MaxRuns == 2

RegScripts == {"igfl_abberior", "zhuang_lab"}

\* both registration.register calls start from the stage positions
RegistrationStagesUnseeded(script) ==
    << [transform_key |-> "stage_metadata",
        new_transform_key |-> "translation_registered_3x",
        registration_binning |-> <<3, 9, 9>>,
        post_registration_do_quality_filter |-> TRUE],
       [transform_key |-> "stage_metadata",
        new_transform_key |-> "translation_registered",
        registration_binning |-> <<1, 3, 3>>,
        post_registration_do_quality_filter |-> TRUE] >>

\* the registration.register calls of global_register_data, in order
RegistrationStages(script) ==
    IF script = "igfl_abberior"
    THEN << [transform_key |-> "stage_metadata",
             new_transform_key |-> "translation_registered_3x",
             registration_binning |-> <<3, 9, 9>>,
             post_registration_do_quality_filter |-> TRUE],
            [transform_key |-> "translation_registered_3x",
             new_transform_key |-> "translation_registered",
             registration_binning |-> <<1, 3, 3>>,
             post_registration_do_quality_filter |-> TRUE] >>
    ELSE << [transform_key |-> "stage_metadata",
             new_transform_key |-> "translation_registered",
             registration_binning |-> <<3, 3, 3>>,
             post_registration_do_quality_filter |-> TRUE] >>

NoFusion == [transform_key |-> "none", views |-> {}]

\* a transform is known by the registrations that produced it: <<>> is the
\* stage position, <<b>> the alignment found at binning b from it, ...
StagePosition == <<>>

NoXform == [saved |-> FALSE, affine |-> StagePosition, writes |-> 0]

TransformKeys(msim) == DOMAIN msim.transforms

\* the statement __main__ runs first, with local_register_data skipped
MainEntryGlobalOnly(script) == "g_entry"

\* the statement __main__ runs first: zhuang_lab has its call of
\* local_register_data commented out
MainEntry(script) ==
    IF script = "igfl_abberior" THEN "l_entry" ELSE "g_entry"

\* python 02_register_and_deconvolve.py, run at most MaxRuns times with effect
RunMain(script) ==
    /\ reg_pc = "idle"
    /\ \A t \in Tiles : /\ global_coord_xforms[t].writes < MaxRuns
                         /\ register_computations[t] < MaxRuns
    /\ reg_script' = script
    /\ reg_pc' = MainEntry(script)
    /\ UNCHANGED <<datastore_state, registered_images, register_computations, tiles_done, msims, reg_stage,
                   tile_idx, global_coord_xforms, fused, global_fiducial_image>>
    /\ UNCHANGED notReg

\* local_register_data: the datastore and the DataRegistration object
LocalRegisterEntry ==
    /\ reg_pc = "l_entry"
    /\ tiles_done' = {}
    /\ reg_pc' = "l_register_all_tiles"
    /\ UNCHANGED <<reg_script, datastore_state, registered_images, register_computations, msims, reg_stage,
                   tile_idx, global_coord_xforms, fused, global_fiducial_image>>
    /\ UNCHANGED notReg

\* the registered results are computed anew on every run
OverwriteRegisteredTrue == TRUE

\* DataRegistration(..., overwrite_registered=False, ...)
overwrite_registered == FALSE

\* register_all_tiles goes through one tile, all its rounds: a tile that has
\* a registered result keeps it unless overwrite_registered is set, any
\* other tile's registration is computed and stored
RegisterTile(t) ==
    /\ reg_pc = "l_register_all_tiles"
    /\ t \notin tiles_done
    /\ tiles_done' = tiles_done \cup {t}
    /\ IF t \in registered_images /\ ~overwrite_registered
       THEN UNCHANGED <<registered_images, register_computations>>
       ELSE /\ registered_images' = registered_images \cup {t}
            /\ register_computations' =
                    [register_computations EXCEPT ![t] = @ + 1]
    /\ UNCHANGED <<reg_script, reg_pc, datastore_state, msims, reg_stage, tile_idx,
                   global_coord_xforms, fused, global_fiducial_image>>
    /\ UNCHANGED notReg

RegisterAllTilesReturn ==
    /\ reg_pc = "l_register_all_tiles"
    /\ tiles_done = Tiles
    /\ reg_pc' = "l_update_state"
    /\ UNCHANGED <<reg_script, datastore_state, registered_images, register_computations, tiles_done, msims,
                   reg_stage, tile_idx, global_coord_xforms, fused,
                   global_fiducial_image>>
    /\ UNCHANGED notReg

\* datastore_state.update({"LocalRegistered": True}), and the return to
\* __main__, which calls global_register_data next
LocalUpdateState ==
    /\ reg_pc = "l_update_state"
    /\ datastore_state' = Updated(datastore_state, "LocalRegistered")
    /\ reg_pc' = "g_entry"
    /\ UNCHANGED <<reg_script, registered_images, register_computations, tiles_done, msims, reg_stage,
                   tile_idx, global_coord_xforms, fused, global_fiducial_image>>
    /\ UNCHANGED notReg

\* global_register_data: the datastore and the loop over the tile positions
GlobalRegisterEntry ==
    /\ reg_pc = "g_entry"
    /\ msims' = <<>>
    /\ reg_stage' = 0
    /\ tile_idx' = 0
    /\ fused' = NoFusion
    /\ reg_pc' = "g_load"
    /\ UNCHANGED <<reg_script, datastore_state, registered_images, register_computations, tiles_done,
                   global_coord_xforms, global_fiducial_image>>
    /\ UNCHANGED notReg

\* one iteration of the loop that builds msims: the registered image of the
\* next tile is loaded and wrapped under the key stage_metadata; a tile
\* without a registered image has none to load and the run ends there
LoadTile ==
    /\ reg_pc = "g_load"
    /\ Len(msims) < NumTiles
    /\ LET tile_id == Len(msims) + 1
       IN IF tile_id \in registered_images
          THEN /\ msims' = Append(msims, [tile_id |-> tile_id,
                                          transforms |-> ("stage_metadata" :> StagePosition)])
               /\ reg_pc' = "g_load"
          ELSE /\ msims' = msims
               /\ reg_pc' = "failed"
    /\ UNCHANGED <<reg_script, datastore_state, registered_images, register_computations, tiles_done,
                   reg_stage, tile_idx, global_coord_xforms, fused,
                   global_fiducial_image>>
    /\ UNCHANGED notReg

LoadLoopEnd ==
    /\ reg_pc = "g_load"
    /\ Len(msims) = NumTiles
    /\ reg_pc' = "g_register"
    /\ UNCHANGED <<reg_script, datastore_state, registered_images, register_computations, tiles_done, msims,
                   reg_stage, tile_idx, global_coord_xforms, fused,
                   global_fiducial_image>>
    /\ UNCHANGED notReg

\* the transform a view gets under new_transform_key: the alignment found at
\* this binning from its prior, or the prior itself when the quality filter
\* rejects the alignment
Registered(prior, stage, accepted) ==
    IF accepted \/ ~stage.post_registration_do_quality_filter
    THEN Append(prior, stage.registration_binning)
    ELSE prior

\* registration.register(msims, transform_key, new_transform_key, ...): every
\* view must carry transform_key and gets new_transform_key
Register ==
    /\ reg_pc = "g_register"
    /\ reg_stage < Len(RegistrationStages(reg_script))
    /\ LET stage == RegistrationStages(reg_script)[reg_stage + 1]
       IN IF \A k \in 1..Len(msims) : stage.transform_key \in TransformKeys(msims[k])
          THEN /\ \E passed \in SUBSET (1..Len(msims)) :
                    msims' = [k \in 1..Len(msims) |->
                        [msims[k] EXCEPT !.transforms =
                            (stage.new_transform_key :>
                                Registered(@[stage.transform_key], stage, k \in passed))
                            @@ @]]
               /\ reg_stage' = reg_stage + 1
               /\ reg_pc' = "g_register"
          ELSE /\ UNCHANGED <<msims, reg_stage>>
               /\ reg_pc' = "failed"
    /\ UNCHANGED <<reg_script, datastore_state, registered_images, register_computations, tiles_done,
                   tile_idx, global_coord_xforms, fused, global_fiducial_image>>
    /\ UNCHANGED notReg

RegisterEnd ==
    /\ reg_pc = "g_register"
    /\ reg_stage = Len(RegistrationStages(reg_script))
    /\ reg_pc' = "g_save_xforms"
    /\ UNCHANGED <<reg_script, datastore_state, registered_images, register_computations, tiles_done, msims,
                   reg_stage, tile_idx, global_coord_xforms, fused,
                   global_fiducial_image>>
    /\ UNCHANGED notReg

\* the transform-saving loop left after its first iteration
SaveLoopDoneEarly(idx, views) == idx >= 1

\* `for tile_idx, msim in enumerate(msims)` has no view left
SaveLoopDone(idx, views) == idx = Len(views)

\* one iteration of the loop that saves the transforms:
\* get_transform_from_msim(msim, "translation_registered") and
\* datastore.save_global_coord_xforms_um(..., tile=tile_idx)
SaveGlobalCoordXforms ==
    /\ reg_pc = "g_save_xforms"
    /\ ~SaveLoopDone(tile_idx, msims)
    /\ IF "translation_registered" \in TransformKeys(msims[tile_idx + 1])
       THEN /\ global_coord_xforms' =
                    [global_coord_xforms EXCEPT ![tile_idx + 1] =
                        [saved |-> TRUE,
                         affine |-> msims[tile_idx + 1].transforms["translation_registered"],
                         writes |-> @.writes + 1]]
            /\ tile_idx' = tile_idx + 1
            /\ reg_pc' = "g_save_xforms"
       ELSE /\ UNCHANGED <<global_coord_xforms, tile_idx>>
            /\ reg_pc' = "failed"
    /\ UNCHANGED <<reg_script, datastore_state, registered_images, register_computations, tiles_done, msims,
                   reg_stage, fused, global_fiducial_image>>
    /\ UNCHANGED notReg

\* the key fusion.fuse is given
FuseKeyCoarse == "translation_registered_3x"

FuseKey == "translation_registered"

\* only the views whose alignment passed a quality filter are fused
FusedViewsRegistered(views) ==
    {views[k].tile_id : k \in {j \in 1..Len(views) :
                                views[j].transforms[FuseKey] # StagePosition}}

\* [msi_utils.get_sim_from_msim(msim) for msim in msims]
FusedViews(views) == {views[k].tile_id : k \in 1..Len(views)}

\* fusion.fuse([... for msim in msims], transform_key=..., ...)
Fuse ==
    /\ reg_pc = "g_save_xforms"
    /\ SaveLoopDone(tile_idx, msims)
    /\ IF \A k \in 1..Len(msims) : FuseKey \in TransformKeys(msims[k])
       THEN /\ fused' = [transform_key |-> FuseKey,
                         views |-> FusedViews(msims)]
            /\ reg_pc' = "g_save_fused"
       ELSE /\ fused' = fused
            /\ reg_pc' = "failed"
    /\ UNCHANGED <<reg_script, datastore_state, registered_images, register_computations, tiles_done, msims,
                   reg_stage, tile_idx, global_coord_xforms, global_fiducial_image>>
    /\ UNCHANGED notReg

\* datastore.save_global_fidicual_image(fused_image=..., ...)
SaveGlobalFiducialImage ==
    /\ reg_pc = "g_save_fused"
    /\ global_fiducial_image' = TRUE
    /\ reg_pc' = "g_update_state"
    /\ UNCHANGED <<reg_script, datastore_state, registered_images, register_computations, tiles_done, msims,
                   reg_stage, tile_idx, global_coord_xforms, fused>>
    /\ UNCHANGED notReg

\* datastore_state.update({"GlobalRegistered": True}) and ({"Fused": True})
GlobalUpdateState ==
    /\ reg_pc = "g_update_state"
    /\ datastore_state' = Updated(Updated(datastore_state, "GlobalRegistered"),
                                   "Fused")
    /\ reg_pc' = "g_max_proj"
    /\ UNCHANGED <<reg_script, registered_images, register_computations, tiles_done, msims, reg_stage,
                   tile_idx, global_coord_xforms, fused, global_fiducial_image>>
    /\ UNCHANGED notReg

\* the max projection OME-TIFF is written and __main__ ends
WriteMaxProjection ==
    /\ reg_pc = "g_max_proj"
    /\ reg_pc' = "idle"
    /\ UNCHANGED <<reg_script, datastore_state, registered_images, register_computations, tiles_done, msims,
                   reg_stage, tile_idx, global_coord_xforms, fused,
                   global_fiducial_image>>
    /\ UNCHANGED notReg

\* the run ended with an exception; the datastore keeps what was written
MainFailed ==
    /\ reg_pc = "failed"
    /\ reg_pc' = "idle"
    /\ UNCHANGED <<reg_script, datastore_state, registered_images, register_computations, tiles_done, msims,
                   reg_stage, tile_idx, global_coord_xforms, fused,
                   global_fiducial_image>>
    /\ UNCHANGED notReg

RegNext ==
    \/ \E script \in RegScripts : RunMain(script)
    \/ LocalRegisterEntry
    \/ \E t \in Tiles : RegisterTile(t)
    \/ RegisterAllTilesReturn
    \/ LocalUpdateState
    \/ GlobalRegisterEntry
    \/ LoadTile
    \/ LoadLoopEnd
    \/ Register
    \/ RegisterEnd
    \/ SaveGlobalCoordXforms
    \/ Fuse
    \/ SaveGlobalFiducialImage
    \/ GlobalUpdateState
    \/ WriteMaxProjection
    \/ MainFailed

----------------------------------------------------------------------------
(* The conversion scripts: convert_data of                                  *)
(* igfl_abberior/01_convert_to_datastore.py and convert_simulation of       *)
(* igfl_simulated_data_1round/01_convert_simulation_to_datastore.py.        *)
(* An image is known by its shape and by whether it is the zero-filled      *)
(* replacement; the datastore keeps every save call it received.            *)

ConvScripts == {"convert_data", "convert_simulation"}

\* largest number of round folders convert_data finds under "Raw ome tiff"
NumRounds == 2

\* largest number of *.ome.tiff files it finds in the folder of round 1
NumConvTiles == 2

\* largest num_bits of metadata_simulation.json
MaxBits == 3

\* range(datastore.num_rounds), range(datastore.num_tiles): convert_simulation
\* sets both numbers to 1
Rounds(script) == IF script = "convert_data" THEN 0..(NumRounds - 1) ELSE {0}

ConvTiles(script) == IF script = "convert_data" THEN 0..(NumConvTiles - 1) ELSE {0}

\* the columns a channel_order.csv may have: the fiducial dye first, or
\* after a readout dye
DyeOrders == {<<"DAPI", "dyeA", "dyeB">>, <<"dyeA", "DAPI", "dyeB">>}

\* the columns of the simulation's table: the fiducial and the readouts
DyeOrderSimulation == <<"DAPI", "wl">>

\* position of a readout column among the readout columns
ReadoutRank(col) == Cardinality({c \in 1..col : dye_order[c] # "DAPI"})

\* df_experiment_order.values of a channel_order.csv that gives every
\* readout of every round a bit of its own, numbered from 1; the DAPI
\* column holds the round
ExperimentOrderDistinct ==
    [r \in 1..NumRounds |->
        [col \in 1..Len(dye_order) |->
            IF dye_order[col] = "DAPI" THEN r
            ELSE (r - 1) * (Len(dye_order) - 1) + ReadoutRank(col)]]

\* ... and of one whose rows all name the same bits
ExperimentOrderRepeated ==
    [r \in 1..NumRounds |->
        [col \in 1..Len(dye_order) |->
            IF dye_order[col] = "DAPI" THEN r ELSE ReadoutRank(col)]]

\* the table convert_simulation builds: one round, the bits 1..num_bits
ExperimentOrderSimulation(bits) == << <<1>> \o [b \in 1..bits |-> b] >>

z_size_crop == 100

\* correct_shape (C, Z, Y, X) of the sample tile's OME metadata: one
\* channel for every dye
correct_shape == <<Len(dye_order), z_size_crop, 4, 4>>

\* what image_path may hold: no file, or an OME-TIFF of some shape (a longer
\* stack, a stack of the expected size, a wider image, a stack without
\* channel axis)
RawFiles ==
    {[exists |-> FALSE, shape |-> <<>>]}
    \cup {[exists |-> TRUE, shape |-> s] :
            s \in {<<3, 101, 4, 4>>, <<3, 100, 4, 4>>, <<3, 100, 4, 5>>, <<100, 4, 4>>}}

\* imread(img_paths[0]) of convert_simulation, axes 0 and 1 swapped: the
\* fiducial channel and one channel for every bit
SimulationFile(bits) == [exists |-> TRUE, shape |-> <<bits + 1, 4, 4, 4>>]

Min(a, b) == IF a < b THEN a ELSE b

\* imread(image_path)[:, :z_size_crop, ...]
Imread(file) ==
    [shape |-> [k \in DOMAIN file.shape |->
                    IF k = 2 THEN Min(file.shape[k], z_size_crop) ELSE file.shape[k]],
     zeros |-> FALSE]

\* the image is kept whatever its shape
CheckedImageUnreplaced(raw_image) == raw_image

\* if raw_image is None or raw_image.shape != correct_shape:
\*     raw_image = np.zeros(correct_shape, dtype=np.uint16)
CheckedImage(raw_image) ==
    IF raw_image.shape # correct_shape
    THEN [shape |-> correct_shape, zeros |-> TRUE]
    ELSE raw_image

RECURSIVE Squeeze(_)
\* np.squeeze: the axes of length 1 are dropped
Squeeze(shape) ==
    IF shape = <<>> THEN <<>>
    ELSE IF Head(shape) = 1 THEN Squeeze(Tail(shape))
    ELSE <<Head(shape)>> \o Squeeze(Tail(shape))

\* raw_image[channel, :] and raw_image[channel]: one channel of the stack
Channel(raw_image) == [raw_image EXCEPT !.shape = Tail(@)]

\* the fiducial image is saved in the first round only
FiducialSaveFirstRound(raw_image, tile, round) ==
    IF round = 0
    THEN << [tile |-> tile, round |-> round, dye |-> "DAPI",
             shape |-> Squeeze(Channel(raw_image).shape),
             zeros |-> raw_image.zeros] >>
    ELSE <<>>

\* datastore.save_local_corrected_image(np.squeeze(raw_image[DAPI, :]), ...,
\* round=round_idx)
FiducialSave(raw_image, tile, round) ==
    << [tile |-> tile, round |-> round, dye |-> "DAPI",
        shape |-> Squeeze(Channel(raw_image).shape),
        zeros |-> raw_image.zeros] >>

\* for dye_name in dye_order[1:]: save_local_corrected_image(..., bit=
\* int(experiment_order[round_idx, dye_order.index(dye_name)]) - 1)
ReadoutSaves(raw_image, tile, round, order) ==
    [d \in 1..(Len(dye_order) - 1) |->
        [tile |-> tile, round |-> round, dye |-> dye_order[d + 1],
         bit |-> order[round + 1][d + 1] - 1,
         shape |-> Squeeze(Channel(raw_image).shape),
         zeros |-> raw_image.zeros]]

\* for bit_idx in range(num_bits): save_local_corrected_image(
\* raw_image[bit_idx + 1], ..., bit=bit_idx)
ReadoutSavesSimulation(raw_image, tile, round, bits) ==
    [b \in 1..bits |->
        [tile |-> tile, round |-> round, dye |-> "wl",
         bit |-> b - 1,
         shape |-> Channel(raw_image).shape,
         zeros |-> raw_image.zeros]]

\* the metadata is read, the datastore is opened and populated:
\* datastore_state.update({"Calibrations": True})
ConvertCalibrations ==
    /\ conv_pc = "calibrations"
    /\ datastore_state' = Updated(datastore_state, "Calibrations")
    /\ conv_pc' = "loop"
    /\ UNCHANGED <<conv_script, dye_order, experiment_order, num_bits, round_idx,
                   conv_tile_idx, image_file, fiducial_saves, readout_saves>>
    /\ UNCHANGED <<reg_script, reg_pc, registered_images, register_computations,
                   tiles_done, msims, reg_stage, tile_idx, global_coord_xforms,
                   fused, global_fiducial_image>>
    /\ UNCHANGED <<f1vars, dvars, svars, pvars, gvars>>

\* one iteration of convert_data's loop over the tiles of a round: the
\* asserts on the file, the read, the shape check and the saves
ConvertDataTile ==
    /\ conv_script = "convert_data"
    /\ conv_pc = "loop"
    /\ round_idx \in Rounds(conv_script)
    /\ IF ~image_file.exists
       THEN \* assert image_path.exists()
            /\ conv_pc' = "AssertionError"
            /\ UNCHANGED <<round_idx, conv_tile_idx, image_file, fiducial_saves,
                           readout_saves>>
       ELSE LET raw_image == CheckedImage(Imread(image_file))
            IN /\ fiducial_saves' = fiducial_saves
                       \o FiducialSave(raw_image, conv_tile_idx, round_idx)
               /\ readout_saves' = readout_saves
                       \o ReadoutSaves(raw_image, conv_tile_idx, round_idx,
                                       experiment_order)
               /\ IF conv_tile_idx + 1 \in ConvTiles(conv_script)
                  THEN conv_tile_idx' = conv_tile_idx + 1 /\ round_idx' = round_idx
                  ELSE conv_tile_idx' = 0 /\ round_idx' = round_idx + 1
               /\ image_file' \in RawFiles
               /\ conv_pc' = "loop"
    /\ UNCHANGED <<conv_script, dye_order, experiment_order, num_bits>>
    /\ UNCHANGED notConvert

\* one iteration of convert_simulation's loop: the image is simulation_data,
\* whose shape is correct_shape by definition
ConvertSimulationTile ==
    /\ conv_script = "convert_simulation"
    /\ conv_pc = "loop"
    /\ round_idx \in Rounds(conv_script)
    /\ LET raw_image == [shape |-> image_file.shape, zeros |-> FALSE]
       IN /\ fiducial_saves' = fiducial_saves
                \o << [tile |-> conv_tile_idx, round |-> round_idx,
                       dye |-> "DAPI",
                       shape |-> Channel(raw_image).shape,
                       zeros |-> raw_image.zeros] >>
          /\ readout_saves' = readout_saves
                \o ReadoutSavesSimulation(raw_image, conv_tile_idx, round_idx, num_bits)
    /\ IF conv_tile_idx + 1 \in ConvTiles(conv_script)
       THEN conv_tile_idx' = conv_tile_idx + 1 /\ round_idx' = round_idx
       ELSE conv_tile_idx' = 0 /\ round_idx' = round_idx + 1
    /\ UNCHANGED <<conv_script, conv_pc, dye_order, experiment_order, num_bits,
                   image_file>>
    /\ UNCHANGED notConvert

\* the loop over the rounds is left after its first round
ConvertLoopsDoneEarly(script, round) == round >= 1

\* `for round_idx in range(num_rounds)` has no round left
ConvertLoopsDone(script, round) == round \notin Rounds(script)

\* the loops are over: datastore_state.update({"Corrected": True})
ConvertReturn ==
    /\ conv_pc = "loop"
    /\ ConvertLoopsDone(conv_script, round_idx)
    /\ datastore_state' = Updated(datastore_state, "Corrected")
    /\ conv_pc' = "done"
    /\ UNCHANGED <<conv_script, dye_order, experiment_order, num_bits, round_idx,
                   conv_tile_idx, image_file, fiducial_saves, readout_saves>>
    /\ UNCHANGED <<reg_script, reg_pc, registered_images, register_computations,
                   tiles_done, msims, reg_stage, tile_idx, global_coord_xforms,
                   fused, global_fiducial_image>>
    /\ UNCHANGED <<f1vars, dvars, svars, pvars, gvars>>

ConvertNext ==
    \/ ConvertCalibrations
    \/ ConvertDataTile
    \/ ConvertSimulationTile
    \/ ConvertReturn

----------------------------------------------------------------------------
(* The parameter sweep: sweep_decode_params of                              *)
(* igfl_simulated_data_1round/sweep_f1.py.  Thresholds are counted in       *)
(* thousandths; decode_pixels and calculate_F1 either return or raise.      *)

\* largest number of magnitude thresholds swept
NumMagValues == 2

\* spotmap_threshold_range
spotmap_threshold_range == <<50, 64>>

\* the steps sweep_decode_params is called with: the default 0.01, and a
\* step under the 2 decimals the keys are rounded to
SpotmapThresholdSteps == {<<10>>, <<6>>}

\* mag_threshold_range, mag_threshold_step
mag_threshold_range == <<500, 500 + 100 * NumMagValues>>

mag_threshold_step == <<100>>

\* np.arange(start, stop, step).tolist()
Arange(range, step) ==
    [k \in 1..((range[2] - range[1] + step[1] - 1) \div step[1]) |->
        range[1] + (k - 1) * step[1]]

spotmap_values == Arange(spotmap_threshold_range, spotmap_threshold_step)

mag_values == Arange(mag_threshold_range, mag_threshold_step)

\* round(x, 2) of a threshold in thousandths, in hundredths: half to even
Round2(x) ==
    LET q == x \div 10
        r == x % 10
    IN IF r > 5 \/ (r = 5 /\ q % 2 = 1) THEN q + 1 ELSE q

\* str(params): the key of a configuration in results, fdr and the
\* thresholds in hundredths
ParamsKey(spotmap, mag) ==
    [fdr |-> 5, min_pixels |-> 9, mag_thresh |-> Round2(mag),
     spotmap_threshold |-> Round2(spotmap)]

\* the exceptions decode_pixels and calculate_F1 may end with
SweepExceptions == {"decode_pixels raised", "calculate_F1 raised"}

\* no decoded spots on the datastore yet
NoTable == [none |-> TRUE]

\* the F1 Score calculate_F1 may return, in thousandths
F1Values == {500, 1000}

NoResult == [error |-> "none", scores |-> FALSE, f1 |-> 0, spots_of |-> NoTable]

\* the dict calculate_F1 returns; spots_of is not a key of the dict, it
\* records which configuration's decoded spots the metrics were computed from
Scores(f1, table) ==
    [error |-> "none", scores |-> TRUE, f1 |-> f1, spots_of |-> table]

\* the exception leaves sweep_decode_params
ExceptReraised(e) == [pc |-> "raised", result |-> NoResult]

\* except Exception as e: result = {"error": str(e)}
Except(e) ==
    [pc |-> "record",
     result |-> [error |-> e, scores |-> FALSE, f1 |-> 0, spots_of |-> NoTable]]

\* a decode_pixels exception that is swallowed before calculate_F1
DecodeRaisedIgnored(e) == [pc |-> "calculate_F1", result |-> NoResult]

\* the try block is left at the exception decode_pixels raised
DecodeRaised(e) == Except(e)

\* try: decode_pixels(root_path, round(mag, 2), round(spotmap, 2)): the
\* datastore's decoded spots become those of this configuration
SweepDecodePixels ==
    /\ sweep_pc = "decode_pixels"
    /\ \/ /\ sweep_pc' = "calculate_F1"
          /\ result' = result
          /\ decoded_table' = ParamsKey(spotmap_values[spotmap_idx + 1],
                                        mag_values[mag_idx + 1])
       \/ /\ sweep_pc' = DecodeRaised("decode_pixels raised").pc
          /\ result' = DecodeRaised("decode_pixels raised").result
          /\ decoded_table' = decoded_table
    /\ UNCHANGED <<spotmap_threshold_step, spotmap_idx, mag_idx, sweep_results,
                   results_file, highlighted>>
    /\ UNCHANGED notSweep

\* result = calculate_F1(root_path, gt_path, search_radius=0.75), from the
\* decoded spots the datastore holds
SweepCalculateF1 ==
    /\ sweep_pc = "calculate_F1"
    /\ \/ /\ sweep_pc' = "record"
          /\ \E f1 \in F1Values : result' = Scores(f1, decoded_table)
       \/ /\ sweep_pc' = Except("calculate_F1 raised").pc
          /\ result' = Except("calculate_F1 raised").result
    /\ UNCHANGED <<spotmap_threshold_step, spotmap_idx, mag_idx, sweep_results,
                   results_file, decoded_table, highlighted>>
    /\ UNCHANGED notSweep

\* results[str(params)] = result; json.dump(results, file); then the next
\* mag of mag_values, or the next spotmap of spotmap_values
SweepRecord ==
    /\ sweep_pc = "record"
    /\ LET key == ParamsKey(spotmap_values[spotmap_idx + 1], mag_values[mag_idx + 1])
           updated == (key :> result) @@ sweep_results
       IN /\ sweep_results' = updated
          /\ results_file' = updated
    /\ IF mag_idx + 1 < Len(mag_values)
       THEN /\ mag_idx' = mag_idx + 1
            /\ spotmap_idx' = spotmap_idx
            /\ sweep_pc' = "decode_pixels"
       ELSE /\ mag_idx' = 0
            /\ spotmap_idx' = spotmap_idx + 1
            /\ sweep_pc' = IF spotmap_idx + 1 < Len(spotmap_values)
                           THEN "decode_pixels" ELSE "done"
    /\ result' = NoResult
    /\ UNCHANGED <<spotmap_threshold_step, decoded_table, highlighted>>
    /\ UNCHANGED notSweep

\* the rows of the data frame that have an "F1 Score"
Scored(f1_sweep) == {k \in DOMAIN f1_sweep : f1_sweep[k].scores}

\* metric_heatmap.max().max()
MaxVal(f1_sweep) ==
    CHOOSE m \in {f1_sweep[k].f1 : k \in Scored(f1_sweep)} :
        \A k \in Scored(f1_sweep) : f1_sweep[k].f1 <= m

\* every scored cell is drawn in bold
BoldCellsAll(f1_sweep) == Scored(f1_sweep)

\* the cells left by mask = metric_heatmap != max_val
BoldCells(f1_sweep) ==
    {k \in Scored(f1_sweep) : f1_sweep[k].f1 = MaxVal(f1_sweep)}

\* plot_heatmap_f1_sweep, called by __main__ after the sweep: it loads the
\* results file; pivot raises KeyError when no row has an "F1 Score"
PlotHeatmapF1Sweep ==
    /\ sweep_pc = "done"
    /\ IF Scored(results_file) = {}
       THEN /\ sweep_pc' = "KeyError"
            /\ highlighted' = highlighted
       ELSE /\ sweep_pc' = "plotted"
            /\ highlighted' = BoldCells(results_file)
    /\ UNCHANGED <<spotmap_threshold_step, spotmap_idx, mag_idx, result,
                   sweep_results, results_file, decoded_table>>
    /\ UNCHANGED notSweep

SweepNext ==
    \/ SweepDecodePixels
    \/ SweepCalculateF1
    \/ SweepRecord
    \/ PlotHeatmapF1Sweep

----------------------------------------------------------------------------
(* The decoding of one tile's pixels and the FDR filtering of its spots.    *)
(* The PixelDecoder class is not among the source files: this part follows  *)
(* section 4.3 of the specification, with the barcode distance taken        *)
(* between unit-normalized vectors and the false discovery rate estimated    *)
(* from the calls of blank barcodes.  Every pixel is a spot of its own.      *)

\* largest number of pixels of the tile
MaxPixels == 3

\* the codebook: two coding barcodes and a blank one, four bits on each
Codebook ==
    ("geneA" :> <<1, 1, 1, 1, 0>>) @@ ("geneB" :> <<0, 1, 1, 1, 1>>)
        @@ ("Blank1" :> <<1, 1, 0, 1, 1>>)

BlankIds == {"Blank1"}

CodingIds == DOMAIN Codebook \ BlankIds

\* normalized intensity vectors a pixel may have (their lengths are whole)
PixelIntensities ==
    {<<1, 1, 1, 1, 0>>, <<0, 2, 2, 2, 2>>, <<1, 1, 0, 1, 1>>, <<0, 2, 2, 1, 0>>,
     <<1, 0, 0, 0, 0>>}

\* what a pixel may really hold: a molecule of a coding gene
TrueGeneIds == CodingIds

\* thresholds and targets the drivers pass (1.5 and .05 are the defaults of
\* 04_pixeldecode.py)
MagnitudeThresholds == {<<3, 2>>, <<5, 2>>}

FdrTargets == {<<1, 20>>, <<1, 1>>}

RECURSIVE DotUpTo(_, _, _)
DotUpTo(v, b, k) == IF k = 0 THEN 0 ELSE v[k] * b[k] + DotUpTo(v, b, k - 1)

Dot(v, b) == DotUpTo(v, b, Len(v))

\* the Euclidean length of a vector
Norm(v) == CHOOSE n \in 0..Dot(v, v) : n * n = Dot(v, v)

\* a <= b for fractions with positive denominators
LessEq(a, b) == a[1] * b[2] <= b[1] * a[2]

\* squared distance between v and barcode b, both scaled to length 1
UnitDistance2(v, b) ==
    LET nv == Norm(v)
        nb == Norm(b)
        d == [k \in 1..Len(v) |-> v[k] * nb - b[k] * nv]
    IN Ratio(Dot(d, d), nv * nv * nb * nb)

\* every pixel is retained, whatever its magnitude
PassesMagnitudeAlways(v, threshold) == TRUE

\* the pixel's magnitude reaches magnitude_threshold
PassesMagnitude(v, threshold) == LessEq(threshold, Int2Q(Norm(v)))

\* any barcode of the codebook
NearestBarcodesAny(v) == DOMAIN Codebook

\* the barcodes of the codebook nearest to the pixel's vector
NearestBarcodes(v) ==
    {g \in DOMAIN Codebook :
        \A h \in DOMAIN Codebook :
            LessEq(UnitDistance2(v, Codebook[g]), UnitDistance2(v, Codebook[h]))}

\* per-pixel decode of the next pixel: a pixel that passes
\* magnitude_threshold becomes a spot with a nearest barcode as gene id
DecodePixel ==
    /\ pixel_stage = "NORMALIZED"
    /\ pixels_decoded < Len(pixel_vectors)
    /\ LET k == pixels_decoded + 1
           v == pixel_vectors[k]
       IN IF PassesMagnitude(v, magnitude_threshold)
          THEN \E g \in NearestBarcodes(v) :
                decoded_spots' = Append(decoded_spots,
                    [pixel |-> k, gene_id |-> g, magnitude |-> Norm(v)])
          ELSE decoded_spots' = decoded_spots
    /\ pixels_decoded' = pixels_decoded + 1
    /\ UNCHANGED <<pixel_stage, pixel_vectors, true_gene_ids, magnitude_threshold,
                   fdr_target, filtered_spots>>
    /\ UNCHANGED notPixel

\* every pixel of the tile has been decoded
DecodePixelsDone ==
    /\ pixel_stage = "NORMALIZED"
    /\ pixels_decoded = Len(pixel_vectors)
    /\ pixel_stage' = "DECODED"
    /\ UNCHANGED <<pixel_vectors, pixels_decoded, true_gene_ids, magnitude_threshold,
                   fdr_target, decoded_spots, filtered_spots>>
    /\ UNCHANGED notPixel

\* the spots whose magnitude reaches the cutoff
Above(spots, cutoff) == SelectSeq(spots, LAMBDA spot : spot.magnitude >= cutoff)

Blanks(spots) == SelectSeq(spots, LAMBDA spot : spot.gene_id \in BlankIds)

Coding(spots) == SelectSeq(spots, LAMBDA spot : spot.gene_id \in CodingIds)

\* false discovery rate of the coding calls, estimated from the blank calls:
\* (blank calls per blank barcode) * (coding barcodes) / (coding calls)
EstimatedFDR(spots) ==
    IF Len(Coding(spots)) = 0
    THEN IF Len(Blanks(spots)) = 0 THEN Zero ELSE Int2Q(1)
    ELSE Ratio(Len(Blanks(spots)) * Cardinality(CodingIds),
               Cardinality(BlankIds) * Len(Coding(spots)))

\* every magnitude is an acceptable cutoff
AcceptableCutoffsAll(spots, target) ==
    {spots[k].magnitude : k \in DOMAIN spots}

\* the cutoffs at which the estimated false discovery rate of the spots
\* retained does not exceed fdr_target
AcceptableCutoffs(spots, target) ==
    {c \in {spots[k].magnitude : k \in DOMAIN spots} :
        LessEq(EstimatedFDR(Above(spots, c)), target)}

\* FDR filtering: the coding calls above the lowest acceptable cutoff are
\* retained, none when no cutoff is acceptable
FilterFdr ==
    /\ pixel_stage = "DECODED"
    /\ LET cutoffs == AcceptableCutoffs(decoded_spots, fdr_target)
       IN filtered_spots' =
            IF cutoffs = {} THEN <<>>
            ELSE Coding(Above(decoded_spots,
                              CHOOSE c \in cutoffs : \A d \in cutoffs : c <= d))
    /\ pixel_stage' = "FILTERED"
    /\ UNCHANGED <<pixel_vectors, pixels_decoded, true_gene_ids, magnitude_threshold,
                   fdr_target, decoded_spots>>
    /\ UNCHANGED notPixel

PixelNext ==
    \/ DecodePixel
    \/ DecodePixelsDone
    \/ FilterFdr

----------------------------------------------------------------------------
(* calculate_F1 of 04_calculate_F1.py and of sweep_f1.py, up to its call of *)
(* calculate_F1_with_radius: the decoded spots and the ground truth are     *)
(* brought to the arguments of that call.  Voxel sizes and coordinates are  *)
(* counted in tenths of a micron.                                           *)

CalcScripts == {"04_calculate_F1", "sweep_f1"}

\* the gene names of the codebook, in the order of its rows
CodebookGeneIds == <<"geneA", "geneB">>

\* rows the ground-truth file may hold: voxel indices and the index of a
\* gene of the codebook
GtRows ==
    {[Z |-> 0, Y |-> 1, X |-> 2, Gene_Label |-> 0],
     [Z |-> 1, Y |-> 0, X |-> 0, Gene_Label |-> 1],
     [Z |-> 2, Y |-> 2, X |-> 1, Gene_Label |-> 0]}

\* rows the table of decoded spots may hold
DecodedRows ==
    {[global_z |-> 0, global_y |-> 1, global_x |-> 2, gene_id |-> "geneA"],
     [global_z |-> 6, global_y |-> 2, global_x |-> 1, gene_id |-> "geneB"]}

\* datastore.voxel_size_zyx_um as convert_simulation sets it:
\* [z_pixel_um, yx_pixel_um, yx_pixel_um]
VoxelSizes == {<<3, 1, 1>>, <<2, 1, 1>>}

Tables(rows, max) == UNION {[1..n -> rows] : n \in 0..max}

\* the Z and X columns change places
ScaledSwapped(row, voxel) ==
    <<row.X * voxel[1], row.Y * voxel[2], row.Z * voxel[3]>>

\* gt_spots[['Z', 'Y', 'X']], then gt_coords[:, a] *= voxel_size_zyx_um[a]
Scaled(row, voxel) ==
    <<row.Z * voxel[1], row.Y * voxel[2], row.X * voxel[3]>>

offset == <<0, 0, 0>>

\* gt_coords + offset
AddOffset(coord, off) == [axis \in 1..3 |-> coord[axis] + off[axis]]

\* decoded_spots[['global_z', 'global_y', 'global_x']].to_numpy()
DecodedCoords(spots) ==
    [k \in DOMAIN spots |->
        <<spots[k].global_z, spots[k].global_y, spots[k].global_x>>]

\* gene_ids[gt_spots['Gene Label'].to_numpy(dtype=int)]
LabelsToGeneIds(spots, ids) ==
    [k \in DOMAIN spots |-> ids[spots[k].Gene_Label + 1]]

\* calculate_F1 of 04_calculate_F1.py, up to the call of
\* calculate_F1_with_radius
CalculateF1 ==
    /\ calc_script = "04_calculate_F1"
    /\ calc_pc = "entry"
    /\ qi2lab_coords' = DecodedCoords(global_decoded_spots)
    /\ qi2lab_gene_ids' = [k \in DOMAIN global_decoded_spots |->
                                global_decoded_spots[k].gene_id]
    /\ gt_coords' = [k \in DOMAIN gt_spots |->
                        AddOffset(Scaled(gt_spots[k], voxel_size_zyx_um), offset)]
    /\ gt_gene_ids' = LabelsToGeneIds(gt_spots, gene_ids)
    /\ \E search_radius \in Radii : radius' = search_radius
    /\ calc_pc' = "calculate_F1_with_radius"
    /\ UNCHANGED <<i, nearby_indices, matched_gt_indices, true_positives,
                   false_positives, false_negatives, results, results_sweep, pc>>
    /\ UNCHANGED <<calc_script, gene_ids, global_decoded_spots, gt_spots,
                   voxel_size_zyx_um>>
    /\ UNCHANGED <<dvars, rvars, cvars, svars, pvars>>

\* calculate_F1 of sweep_f1.py: gt_coords_offset = gt_coords
CalculateF1Sweep ==
    /\ calc_script = "sweep_f1"
    /\ calc_pc = "entry"
    /\ qi2lab_coords' = DecodedCoords(global_decoded_spots)
    /\ qi2lab_gene_ids' = [k \in DOMAIN global_decoded_spots |->
                                global_decoded_spots[k].gene_id]
    /\ gt_coords' = [k \in DOMAIN gt_spots |->
                        Scaled(gt_spots[k], voxel_size_zyx_um)]
    /\ gt_gene_ids' = LabelsToGeneIds(gt_spots, gene_ids)
    /\ \E search_radius \in Radii : radius' = search_radius
    /\ calc_pc' = "calculate_F1_with_radius"
    /\ UNCHANGED <<i, nearby_indices, matched_gt_indices, true_positives,
                   false_positives, false_negatives, results, results_sweep, pc>>
    /\ UNCHANGED <<calc_script, gene_ids, global_decoded_spots, gt_spots,
                   voxel_size_zyx_um>>
    /\ UNCHANGED <<dvars, rvars, cvars, svars, pvars>>

GroundTruthNext ==
    \/ CalculateF1
    \/ CalculateF1Sweep

----------------------------------------------------------------------------
(* The specifications: one part of the model runs, the others stay idle.    *)

\* the scripts that write the datastore's stage flags
PipelineNext ==
    \/ ConvertCalibrations
    \/ ConvertDataTile
    \/ ConvertSimulationTile
    \/ ConvertReturn
    \/ \E script \in RegScripts : RunMain(script)
    \/ LocalRegisterEntry
    \/ \E t \in Tiles : RegisterTile(t)
    \/ RegisterAllTilesReturn
    \/ LocalUpdateState
    \/ GlobalRegisterEntry
    \/ LoadTile
    \/ LoadLoopEnd
    \/ Register
    \/ RegisterEnd
    \/ SaveGlobalCoordXforms
    \/ Fuse
    \/ SaveGlobalFiducialImage
    \/ GlobalUpdateState
    \/ WriteMaxProjection
    \/ MainFailed

\* calculate_F1_with_radius is called on any arguments within the bounds
F1Init ==
    /\ \E q \in Spots(MaxDecoded), g \in Spots(MaxGt) :
        /\ qi2lab_coords = [k \in DOMAIN q |-> q[k][1]]
        /\ qi2lab_gene_ids = [k \in DOMAIN q |-> q[k][2]]
        /\ gt_coords = [k \in DOMAIN g |-> g[k][1]]
        /\ gt_gene_ids = [k \in DOMAIN g |-> g[k][2]]
    /\ radius \in Radii
    /\ i = 0 /\ nearby_indices = <<>> /\ matched_gt_indices = {}
    /\ true_positives = 0 /\ false_positives = 0 /\ false_negatives = 0
    /\ results = NoResults /\ results_sweep = NoResults
    /\ pc = "loop"
    /\ decode_script = "none" /\ decode_pc = "idle" /\ tile_idx_arg = 0
    /\ normalization = "none"
    /\ tile_stage = [t \in DecodeTiles |-> "UNPROCESSED"]
    /\ decode_raised = "none"
    /\ reg_script = "none" /\ reg_pc = "off"
    /\ datastore_state = [Calibrations |-> TRUE, Corrected |-> TRUE,
                          LocalRegistered |-> FALSE, GlobalRegistered |-> FALSE,
                          Fused |-> FALSE]
    /\ registered_images = {} /\ tiles_done = {} /\ msims = <<>>
    /\ register_computations = [t \in Tiles |-> 0]
    /\ reg_stage = 0 /\ tile_idx = 0
    /\ global_coord_xforms = [t \in Tiles |-> NoXform]
    /\ fused = NoFusion /\ global_fiducial_image = FALSE
    /\ conv_script = "none" /\ conv_pc = "off"
    /\ dye_order = <<>>
    /\ experiment_order = <<>> /\ num_bits = 0
    /\ round_idx = 0 /\ conv_tile_idx = 0
    /\ image_file = [exists |-> FALSE, shape |-> <<>>]
    /\ fiducial_saves = <<>> /\ readout_saves = <<>>
    /\ sweep_pc = "off" /\ spotmap_idx = 0 /\ mag_idx = 0
    /\ spotmap_threshold_step = <<10>> /\ decoded_table = NoTable
    /\ highlighted = {}
    /\ result = NoResult /\ sweep_results = <<>> /\ results_file = <<>>
    /\ pixel_stage = "off" /\ pixel_vectors = <<>> /\ true_gene_ids = <<>>
    /\ pixels_decoded = 0
    /\ magnitude_threshold = Zero /\ fdr_target = Zero
    /\ decoded_spots = <<>> /\ filtered_spots = <<>>
    /\ calc_script = "none" /\ calc_pc = "off" /\ gene_ids = <<>>
    /\ global_decoded_spots = <<>> /\ gt_spots = <<>>
    /\ voxel_size_zyx_um = <<>>

\* one run of a decoding driver, on a datastore that an earlier run may have
\* calibrated
DecodeInit ==
    /\ qi2lab_coords = <<>> /\ qi2lab_gene_ids = <<>>
    /\ gt_coords = <<>> /\ gt_gene_ids = <<>>
    /\ radius = 0
    /\ i = 0 /\ nearby_indices = <<>> /\ matched_gt_indices = {}
    /\ true_positives = 0 /\ false_positives = 0 /\ false_negatives = 0
    /\ results = NoResults /\ results_sweep = NoResults
    /\ pc = "idle"
    /\ decode_script \in DecodeScripts
    /\ decode_pc = "start"
    /\ tile_idx_arg \in IF decode_script = "view_decoded_tile" THEN DecodeTiles ELSE {0}
    /\ normalization \in {"none", "iterative"}
    /\ tile_stage = [t \in DecodeTiles |-> "UNPROCESSED"]
    /\ decode_raised = "none"
    /\ reg_script = "none" /\ reg_pc = "off"
    /\ datastore_state = [Calibrations |-> TRUE, Corrected |-> TRUE,
                          LocalRegistered |-> FALSE, GlobalRegistered |-> FALSE,
                          Fused |-> FALSE]
    /\ registered_images = {} /\ tiles_done = {} /\ msims = <<>>
    /\ register_computations = [t \in Tiles |-> 0]
    /\ reg_stage = 0 /\ tile_idx = 0
    /\ global_coord_xforms = [t \in Tiles |-> NoXform]
    /\ fused = NoFusion /\ global_fiducial_image = FALSE
    /\ conv_script = "none" /\ conv_pc = "off"
    /\ dye_order = <<>>
    /\ experiment_order = <<>> /\ num_bits = 0
    /\ round_idx = 0 /\ conv_tile_idx = 0
    /\ image_file = [exists |-> FALSE, shape |-> <<>>]
    /\ fiducial_saves = <<>> /\ readout_saves = <<>>
    /\ sweep_pc = "off" /\ spotmap_idx = 0 /\ mag_idx = 0
    /\ spotmap_threshold_step = <<10>> /\ decoded_table = NoTable
    /\ highlighted = {}
    /\ result = NoResult /\ sweep_results = <<>> /\ results_file = <<>>
    /\ pixel_stage = "off" /\ pixel_vectors = <<>> /\ true_gene_ids = <<>>
    /\ pixels_decoded = 0
    /\ magnitude_threshold = Zero /\ fdr_target = Zero
    /\ decoded_spots = <<>> /\ filtered_spots = <<>>
    /\ calc_script = "none" /\ calc_pc = "off" /\ gene_ids = <<>>
    /\ global_decoded_spots = <<>> /\ gt_spots = <<>>
    /\ voxel_size_zyx_um = <<>>

\* the datastore as the conversion script leaves it; the registration
\* drivers are then run any number of times, in any order
RegInit ==
    /\ qi2lab_coords = <<>> /\ qi2lab_gene_ids = <<>>
    /\ gt_coords = <<>> /\ gt_gene_ids = <<>>
    /\ radius = 0
    /\ i = 0 /\ nearby_indices = <<>> /\ matched_gt_indices = {}
    /\ true_positives = 0 /\ false_positives = 0 /\ false_negatives = 0
    /\ results = NoResults /\ results_sweep = NoResults
    /\ pc = "idle"
    /\ decode_script = "none" /\ decode_pc = "idle" /\ tile_idx_arg = 0
    /\ normalization = "none"
    /\ tile_stage = [t \in DecodeTiles |-> "UNPROCESSED"]
    /\ decode_raised = "none"
    /\ reg_script = "none" /\ reg_pc = "idle"
    /\ datastore_state = [Calibrations |-> TRUE, Corrected |-> TRUE,
                          LocalRegistered |-> FALSE, GlobalRegistered |-> FALSE,
                          Fused |-> FALSE]
    /\ registered_images = {} /\ tiles_done = {} /\ msims = <<>>
    /\ register_computations = [t \in Tiles |-> 0]
    /\ reg_stage = 0 /\ tile_idx = 0
    /\ global_coord_xforms = [t \in Tiles |-> NoXform]
    /\ fused = NoFusion /\ global_fiducial_image = FALSE
    /\ conv_script = "none" /\ conv_pc = "off"
    /\ dye_order = <<>>
    /\ experiment_order = <<>> /\ num_bits = 0
    /\ round_idx = 0 /\ conv_tile_idx = 0
    /\ image_file = [exists |-> FALSE, shape |-> <<>>]
    /\ fiducial_saves = <<>> /\ readout_saves = <<>>
    /\ sweep_pc = "off" /\ spotmap_idx = 0 /\ mag_idx = 0
    /\ spotmap_threshold_step = <<10>> /\ decoded_table = NoTable
    /\ highlighted = {}
    /\ result = NoResult /\ sweep_results = <<>> /\ results_file = <<>>
    /\ pixel_stage = "off" /\ pixel_vectors = <<>> /\ true_gene_ids = <<>>
    /\ pixels_decoded = 0
    /\ magnitude_threshold = Zero /\ fdr_target = Zero
    /\ decoded_spots = <<>> /\ filtered_spots = <<>>
    /\ calc_script = "none" /\ calc_pc = "off" /\ gene_ids = <<>>
    /\ global_decoded_spots = <<>> /\ gt_spots = <<>>
    /\ voxel_size_zyx_um = <<>>

\* one run of a conversion script: convert_data on a channel_order.csv and
\* raw files as it finds them, convert_simulation on a simulation with
\* num_bits readout channels
ConvertInit ==
    /\ qi2lab_coords = <<>> /\ qi2lab_gene_ids = <<>>
    /\ gt_coords = <<>> /\ gt_gene_ids = <<>>
    /\ radius = 0
    /\ i = 0 /\ nearby_indices = <<>> /\ matched_gt_indices = {}
    /\ true_positives = 0 /\ false_positives = 0 /\ false_negatives = 0
    /\ results = NoResults /\ results_sweep = NoResults
    /\ pc = "idle"
    /\ decode_script = "none" /\ decode_pc = "idle" /\ tile_idx_arg = 0
    /\ normalization = "none"
    /\ tile_stage = [t \in DecodeTiles |-> "UNPROCESSED"]
    /\ decode_raised = "none"
    /\ reg_script = "none" /\ reg_pc = "off"
    /\ datastore_state \in {NewDatastoreState, FusedDatastoreState}
    /\ registered_images = {} /\ tiles_done = {} /\ msims = <<>>
    /\ register_computations = [t \in Tiles |-> 0]
    /\ reg_stage = 0 /\ tile_idx = 0
    /\ global_coord_xforms = [t \in Tiles |-> NoXform]
    /\ fused = NoFusion /\ global_fiducial_image = FALSE
    /\ conv_script \in ConvScripts
    /\ conv_pc = "calibrations"
    /\ dye_order \in IF conv_script = "convert_data"
                      THEN DyeOrders ELSE {DyeOrderSimulation}
    /\ num_bits \in IF conv_script = "convert_data"
                     THEN {NumRounds * (Len(dye_order) - 1)}
                     ELSE 1..MaxBits
    /\ experiment_order \in IF conv_script = "convert_data"
                             THEN {ExperimentOrderDistinct, ExperimentOrderRepeated}
                             ELSE {ExperimentOrderSimulation(num_bits)}
    /\ round_idx = 0 /\ conv_tile_idx = 0
    /\ image_file \in IF conv_script = "convert_data"
                       THEN RawFiles
                       ELSE {SimulationFile(num_bits)}
    /\ fiducial_saves = <<>> /\ readout_saves = <<>>
    /\ sweep_pc = "off" /\ spotmap_idx = 0 /\ mag_idx = 0
    /\ spotmap_threshold_step = <<10>> /\ decoded_table = NoTable
    /\ highlighted = {}
    /\ result = NoResult /\ sweep_results = <<>> /\ results_file = <<>>
    /\ pixel_stage = "off" /\ pixel_vectors = <<>> /\ true_gene_ids = <<>>
    /\ pixels_decoded = 0
    /\ magnitude_threshold = Zero /\ fdr_target = Zero
    /\ decoded_spots = <<>> /\ filtered_spots = <<>>
    /\ calc_script = "none" /\ calc_pc = "off" /\ gene_ids = <<>>
    /\ global_decoded_spots = <<>> /\ gt_spots = <<>>
    /\ voxel_size_zyx_um = <<>>

\* one script of the pipeline runs on a datastore: a conversion script on
\* a new datastore or on one the whole pipeline ran on before, or the
\* registration drivers on a converted datastore
PipelineInit ==
    /\ qi2lab_coords = <<>> /\ qi2lab_gene_ids = <<>>
    /\ gt_coords = <<>> /\ gt_gene_ids = <<>>
    /\ radius = 0
    /\ i = 0 /\ nearby_indices = <<>> /\ matched_gt_indices = {}
    /\ true_positives = 0 /\ false_positives = 0 /\ false_negatives = 0
    /\ results = NoResults /\ results_sweep = NoResults
    /\ pc = "idle"
    /\ decode_script = "none" /\ decode_pc = "idle" /\ tile_idx_arg = 0
    /\ normalization = "none"
    /\ tile_stage = [t \in DecodeTiles |-> "UNPROCESSED"]
    /\ decode_raised = "none"
    /\ conv_script \in ConvScripts \cup {"none"}
    /\ reg_script = "none"
    /\ reg_pc = IF conv_script = "none" THEN "idle" ELSE "off"
    /\ datastore_state \in IF conv_script = "none"
                            THEN {Updated(Updated(NewDatastoreState, "Calibrations"),
                                          "Corrected")}
                            ELSE {NewDatastoreState, FusedDatastoreState}
    /\ registered_images = {} /\ tiles_done = {} /\ msims = <<>>
    /\ register_computations = [t \in Tiles |-> 0]
    /\ reg_stage = 0 /\ tile_idx = 0
    /\ global_coord_xforms = [t \in Tiles |-> NoXform]
    /\ fused = NoFusion /\ global_fiducial_image = FALSE
    /\ conv_pc = IF conv_script = "none" THEN "off" ELSE "calibrations"
    /\ dye_order \in IF conv_script = "convert_data" THEN DyeOrders
                      ELSE IF conv_script = "none" THEN {<<>>}
                      ELSE {DyeOrderSimulation}
    /\ num_bits \in IF conv_script = "convert_data"
                     THEN {NumRounds * (Len(dye_order) - 1)}
                     ELSE IF conv_script = "none" THEN {0}
                     ELSE 1..MaxBits
    /\ experiment_order \in IF conv_script = "convert_data"
                             THEN {ExperimentOrderDistinct, ExperimentOrderRepeated}
                             ELSE IF conv_script = "none" THEN {<<>>}
                             ELSE {ExperimentOrderSimulation(num_bits)}
    /\ round_idx = 0 /\ conv_tile_idx = 0
    /\ image_file \in IF conv_script = "convert_data" THEN RawFiles
                       ELSE IF conv_script = "none"
                       THEN {[exists |-> FALSE, shape |-> <<>>]}
                       ELSE {SimulationFile(num_bits)}
    /\ fiducial_saves = <<>> /\ readout_saves = <<>>
    /\ sweep_pc = "off" /\ spotmap_idx = 0 /\ mag_idx = 0
    /\ spotmap_threshold_step = <<10>> /\ decoded_table = NoTable
    /\ highlighted = {}
    /\ result = NoResult /\ sweep_results = <<>> /\ results_file = <<>>
    /\ pixel_stage = "off" /\ pixel_vectors = <<>> /\ true_gene_ids = <<>>
    /\ pixels_decoded = 0
    /\ magnitude_threshold = Zero /\ fdr_target = Zero
    /\ decoded_spots = <<>> /\ filtered_spots = <<>>
    /\ calc_script = "none" /\ calc_pc = "off" /\ gene_ids = <<>>
    /\ global_decoded_spots = <<>> /\ gt_spots = <<>>
    /\ voxel_size_zyx_um = <<>>

\* sweep_decode_params is called and enters its loops
SweepInit ==
    /\ qi2lab_coords = <<>> /\ qi2lab_gene_ids = <<>>
    /\ gt_coords = <<>> /\ gt_gene_ids = <<>>
    /\ radius = 0
    /\ i = 0 /\ nearby_indices = <<>> /\ matched_gt_indices = {}
    /\ true_positives = 0 /\ false_positives = 0 /\ false_negatives = 0
    /\ results = NoResults /\ results_sweep = NoResults
    /\ pc = "idle"
    /\ decode_script = "none" /\ decode_pc = "idle" /\ tile_idx_arg = 0
    /\ normalization = "none"
    /\ tile_stage = [t \in DecodeTiles |-> "UNPROCESSED"]
    /\ decode_raised = "none"
    /\ reg_script = "none" /\ reg_pc = "off"
    /\ datastore_state = [Calibrations |-> TRUE, Corrected |-> TRUE,
                          LocalRegistered |-> FALSE, GlobalRegistered |-> FALSE,
                          Fused |-> FALSE]
    /\ registered_images = {} /\ tiles_done = {} /\ msims = <<>>
    /\ register_computations = [t \in Tiles |-> 0]
    /\ reg_stage = 0 /\ tile_idx = 0
    /\ global_coord_xforms = [t \in Tiles |-> NoXform]
    /\ fused = NoFusion /\ global_fiducial_image = FALSE
    /\ conv_script = "none" /\ conv_pc = "off"
    /\ dye_order = <<>>
    /\ experiment_order = <<>> /\ num_bits = 0
    /\ round_idx = 0 /\ conv_tile_idx = 0
    /\ image_file = [exists |-> FALSE, shape |-> <<>>]
    /\ fiducial_saves = <<>> /\ readout_saves = <<>>
    /\ sweep_pc = "decode_pixels" /\ spotmap_idx = 0 /\ mag_idx = 0
    /\ spotmap_threshold_step \in SpotmapThresholdSteps
    /\ decoded_table = NoTable /\ highlighted = {}
    /\ result = NoResult /\ sweep_results = <<>> /\ results_file = <<>>
    /\ pixel_stage = "off" /\ pixel_vectors = <<>> /\ true_gene_ids = <<>>
    /\ pixels_decoded = 0
    /\ magnitude_threshold = Zero /\ fdr_target = Zero
    /\ decoded_spots = <<>> /\ filtered_spots = <<>>
    /\ calc_script = "none" /\ calc_pc = "off" /\ gene_ids = <<>>
    /\ global_decoded_spots = <<>> /\ gt_spots = <<>>
    /\ voxel_size_zyx_um = <<>>

\* calculate_F1 is called on a datastore of decoded spots and a ground-truth
\* file
GroundTruthInit ==
    /\ qi2lab_coords = <<>> /\ qi2lab_gene_ids = <<>>
    /\ gt_coords = <<>> /\ gt_gene_ids = <<>>
    /\ radius = 0
    /\ i = 0 /\ nearby_indices = <<>> /\ matched_gt_indices = {}
    /\ true_positives = 0 /\ false_positives = 0 /\ false_negatives = 0
    /\ results = NoResults /\ results_sweep = NoResults
    /\ pc = "idle"
    /\ decode_script = "none" /\ decode_pc = "idle" /\ tile_idx_arg = 0
    /\ normalization = "none"
    /\ tile_stage = [t \in DecodeTiles |-> "UNPROCESSED"]
    /\ decode_raised = "none"
    /\ reg_script = "none" /\ reg_pc = "off"
    /\ datastore_state = [Calibrations |-> TRUE, Corrected |-> TRUE,
                          LocalRegistered |-> FALSE, GlobalRegistered |-> FALSE,
                          Fused |-> FALSE]
    /\ registered_images = {} /\ tiles_done = {} /\ msims = <<>>
    /\ register_computations = [t \in Tiles |-> 0]
    /\ reg_stage = 0 /\ tile_idx = 0
    /\ global_coord_xforms = [t \in Tiles |-> NoXform]
    /\ fused = NoFusion /\ global_fiducial_image = FALSE
    /\ conv_script = "none" /\ conv_pc = "off"
    /\ dye_order = <<>>
    /\ experiment_order = <<>> /\ num_bits = 0
    /\ round_idx = 0 /\ conv_tile_idx = 0
    /\ image_file = [exists |-> FALSE, shape |-> <<>>]
    /\ fiducial_saves = <<>> /\ readout_saves = <<>>
    /\ sweep_pc = "off" /\ spotmap_idx = 0 /\ mag_idx = 0
    /\ spotmap_threshold_step = <<10>> /\ decoded_table = NoTable
    /\ highlighted = {}
    /\ result = NoResult /\ sweep_results = <<>> /\ results_file = <<>>
    /\ pixel_stage = "off" /\ pixel_vectors = <<>> /\ true_gene_ids = <<>>
    /\ pixels_decoded = 0
    /\ magnitude_threshold = Zero /\ fdr_target = Zero
    /\ decoded_spots = <<>> /\ filtered_spots = <<>>
    /\ calc_script \in CalcScripts /\ calc_pc = "entry"
    /\ gene_ids = CodebookGeneIds
    /\ global_decoded_spots \in Tables(DecodedRows, MaxDecoded)
    /\ gt_spots \in Tables(GtRows, MaxGt)
    /\ voxel_size_zyx_um \in VoxelSizes

\* a tile whose pixels are normalized, decoded with the thresholds a driver
\* passes
PixelInit ==
    /\ qi2lab_coords = <<>> /\ qi2lab_gene_ids = <<>>
    /\ gt_coords = <<>> /\ gt_gene_ids = <<>>
    /\ radius = 0
    /\ i = 0 /\ nearby_indices = <<>> /\ matched_gt_indices = {}
    /\ true_positives = 0 /\ false_positives = 0 /\ false_negatives = 0
    /\ results = NoResults /\ results_sweep = NoResults
    /\ pc = "idle"
    /\ decode_script = "none" /\ decode_pc = "idle" /\ tile_idx_arg = 0
    /\ normalization = "none"
    /\ tile_stage = [t \in DecodeTiles |-> "UNPROCESSED"]
    /\ decode_raised = "none"
    /\ reg_script = "none" /\ reg_pc = "off"
    /\ datastore_state = [Calibrations |-> TRUE, Corrected |-> TRUE,
                          LocalRegistered |-> FALSE, GlobalRegistered |-> FALSE,
                          Fused |-> FALSE]
    /\ registered_images = {} /\ tiles_done = {} /\ msims = <<>>
    /\ register_computations = [t \in Tiles |-> 0]
    /\ reg_stage = 0 /\ tile_idx = 0
    /\ global_coord_xforms = [t \in Tiles |-> NoXform]
    /\ fused = NoFusion /\ global_fiducial_image = FALSE
    /\ conv_script = "none" /\ conv_pc = "off"
    /\ dye_order = <<>>
    /\ experiment_order = <<>> /\ num_bits = 0
    /\ round_idx = 0 /\ conv_tile_idx = 0
    /\ image_file = [exists |-> FALSE, shape |-> <<>>]
    /\ fiducial_saves = <<>> /\ readout_saves = <<>>
    /\ sweep_pc = "off" /\ spotmap_idx = 0 /\ mag_idx = 0
    /\ spotmap_threshold_step = <<10>> /\ decoded_table = NoTable
    /\ highlighted = {}
    /\ result = NoResult /\ sweep_results = <<>> /\ results_file = <<>>
    /\ pixel_stage = "NORMALIZED"
    /\ pixels_decoded = 0
    /\ \E n \in 0..MaxPixels :
        /\ pixel_vectors \in [1..n -> PixelIntensities]
        /\ true_gene_ids \in [1..n -> TrueGeneIds]
    /\ magnitude_threshold \in MagnitudeThresholds
    /\ fdr_target \in FdrTargets
    /\ decoded_spots = <<>> /\ filtered_spots = <<>>
    /\ calc_script = "none" /\ calc_pc = "off" /\ gene_ids = <<>>
    /\ global_decoded_spots = <<>> /\ gt_spots = <<>>
    /\ voxel_size_zyx_um = <<>>

SpecF1 == F1Init /\ [][F1Next]_vars

SpecDecode == DecodeInit /\ [][DecodeNext]_vars

SpecReg == RegInit /\ [][RegNext]_vars

SpecConvert == ConvertInit /\ [][ConvertNext]_vars

\* decode_pixels and calculate_F1 end, with a value or an exception, and the
\* interpreter goes on to the next statement
SpecSweep == SweepInit /\ [][SweepNext]_vars /\ WF_vars(SweepNext)

SpecPixel == PixelInit /\ [][PixelNext]_vars

SpecPipeline == PipelineInit /\ [][PipelineNext]_vars

SpecGroundTruth == GroundTruthInit /\ [][GroundTruthNext]_vars

----------------------------------------------------------------------------
(* Properties of calculate_F1_with_radius, checked under SpecF1.            *)

NGt == Len(gt_gene_ids)

\* the decoded spot an F1Iterate step handles is spot i + 1
Iterating == pc = "loop" /\ i < Len(qi2lab_coords) /\ i' = i + 1

WithinRadius(spot, idx) ==
    Dist2(gt_coords[idx], qi2lab_coords[spot]) <= radius * radius

SameGene(spot, idx) == gt_gene_ids[idx] = qi2lab_gene_ids[spot]

\* position of x in the sequence s
PosIn(s, x) == CHOOSE k \in 1..Len(s) : s[k] = x

(* C1: each ground-truth point is consumed by at most one decoded spot: a    *)
(* step that counts a true positive counts exactly one and consumes one      *)
(* ground-truth index that was not consumed before, and the number of true  *)
(* positives never exceeds the number of ground-truth points.               *)
C1_NoDoubleCount ==
    /\ [][true_positives' # true_positives =>
            /\ true_positives' = true_positives + 1
            /\ \E idx \in 1..NGt :
                /\ idx \notin matched_gt_indices
                /\ matched_gt_indices' = matched_gt_indices \cup {idx}]_vars
    /\ [](true_positives <= NGt)

\* two decoded spots of the gene of the only ground-truth point, both within
\* radius of it: the first consumed it, the second found it consumed
C1_Witness ==
    /\ i = 2
    /\ NGt = 1
    /\ WithinRadius(1, 1) /\ WithinRadius(2, 1)
    /\ SameGene(1, 1) /\ SameGene(2, 1)
    /\ true_positives = 1
    /\ false_positives = 1

(* C2: a decoded spot farther than radius from every ground-truth point of  *)
(* its gene is counted as a false positive, never as a true positive,       *)
(* whatever other-gene points lie within radius and whatever was matched    *)
(* before.                                                                  *)
C2_FarFromSameGeneIsFalsePositive ==
    [][(/\ Iterating
        /\ \A idx \in 1..NGt : SameGene(i + 1, idx) => ~WithinRadius(i + 1, idx))
       => /\ false_positives' = false_positives + 1
          /\ true_positives' = true_positives
          /\ matched_gt_indices' = matched_gt_indices]_vars

\* the second spot has an other-gene point within radius, a same-gene point
\* out of radius, and comes after a match; it was counted a false positive
C2_Witness ==
    /\ i = 2
    /\ NGt = 2
    /\ \E a, b \in 1..2 :
        /\ WithinRadius(2, a) /\ ~SameGene(2, a)
        /\ ~WithinRadius(2, b) /\ SameGene(2, b)
    /\ true_positives = 1
    /\ false_positives = 1

(* C3: no division error: precision is exactly 0 when TP + FP = 0, recall   *)
(* exactly 0 when TP + FN = 0 and F1 exactly 0 when precision + recall = 0, *)
(* in both copies of the function.                                          *)
C3_NoDivisionError ==
    pc = "done" =>
        \A r \in {results, results_sweep} :
            /\ ~IsError(r.Precision) /\ ~IsError(r.Recall) /\ ~IsError(r.F1)
            /\ (r.TP + r.FP = 0 => r.Precision = Zero)
            /\ (r.TP + r.FN = 0 => r.Recall = Zero)
            /\ (r.Precision[1] = 0 /\ r.Recall[1] = 0 => r.F1 = Zero)

\* no decoded spot and no ground-truth point: the three denominators are 0
C3_Witness ==
    /\ pc = "done"
    /\ Len(qi2lab_coords) = 0
    /\ NGt = 0
    /\ results.Precision = Zero /\ results.Recall = Zero /\ results.F1 = Zero

\* q = n / d, by cross-multiplication
EqualsFraction(q, n, d) == q[2] # 0 /\ q[1] * d = n * q[2]

\* q = 2 * p * r / (p + r), by cross-multiplication
IsHarmonicMean(q, p, r) ==
    /\ q[2] # 0
    /\ q[1] * (p[1] * r[2] + r[1] * p[2]) * p[2] * r[2]
         = 2 * p[1] * r[1] * q[2] * (p[2] * r[2])

\* q is a multiple of 1/1000 nearest to x
IsRounded3(q, x) ==
    /\ q[2] # 0 /\ 1000 % q[2] = 0
    /\ LET diff == q[1] * x[2] - x[1] * q[2]
           abs == IF diff < 0 THEN 0 - diff ELSE diff
       IN 2 * 1000 * abs <= q[2] * x[2]

ScoresAreExact(r) ==
    /\ (r.TP + r.FP > 0 => EqualsFraction(r.Precision, r.TP, r.TP + r.FP))
    /\ (r.TP + r.FN > 0 => EqualsFraction(r.Recall, r.TP, r.TP + r.FN))
    /\ (r.Precision[1] + r.Recall[1] > 0 =>
            IsHarmonicMean(r.F1, r.Precision, r.Recall))

\* the statement of C4 for both copies of the function
C4_Original ==
    pc = "done" => ScoresAreExact(results) /\ ScoresAreExact(results_sweep)

(* C4 (amended): with non-zero denominators the 04_calculate_F1.py copy     *)
(* returns precision = TP/(TP+FP), recall = TP/(TP+FN) and F1 = the         *)
(* harmonic mean of the two, from the counts of the same result; the        *)
(* sweep_f1.py copy returns the same counts and these three values rounded  *)
(* to 3 decimals.                                                           *)
C4_ScoresFromCounts ==
    pc = "done" =>
        /\ ScoresAreExact(results)
        /\ results.TP = true_positives /\ results.FP = false_positives
        /\ results.FN = false_negatives
        /\ results_sweep.TP = results.TP /\ results_sweep.FP = results.FP
        /\ results_sweep.FN = results.FN
        /\ IsRounded3(results_sweep.Precision, results.Precision)
        /\ IsRounded3(results_sweep.Recall, results.Recall)
        /\ IsRounded3(results_sweep.F1, results.F1)

\* precision 1/2, recall 1, F1 2/3, which the sweep copy returns as 0.667
C4_Witness ==
    /\ pc = "done"
    /\ results.TP = 1 /\ results.FP = 1 /\ results.FN = 0
    /\ results.F1 = <<2, 3>>
    /\ results_sweep.F1 = <<667, 1000>>

(* C5: first-come greedy matching: the decoded spots are handled in input   *)
(* order; the query lists exactly the ground-truth points within radius;    *)
(* among those not yet consumed and of the spot's gene the first of the     *)
(* list is accepted as a true positive and consumed; with no such candidate *)
(* the spot is a false positive; no earlier match is ever revised.          *)
C5_FirstComeGreedy ==
    [][Iterating =>
        LET spot == i + 1
            cand == {idx \in 1..NGt :
                        /\ WithinRadius(spot, idx)
                        /\ idx \notin matched_gt_indices
                        /\ SameGene(spot, idx)}
        IN /\ {nearby_indices'[k] : k \in 1..Len(nearby_indices')}
                = {idx \in 1..NGt : WithinRadius(spot, idx)}
           /\ IF cand = {}
              THEN /\ false_positives' = false_positives + 1
                   /\ true_positives' = true_positives
                   /\ matched_gt_indices' = matched_gt_indices
              ELSE /\ false_positives' = false_positives
                   /\ true_positives' = true_positives + 1
                   /\ \E c \in cand :
                        /\ matched_gt_indices' = matched_gt_indices \cup {c}
                        /\ \A d \in cand :
                            PosIn(nearby_indices', c) <= PosIn(nearby_indices', d)
           /\ matched_gt_indices \subseteq matched_gt_indices']_vars

\* two spots and two ground-truth points of one gene: only point 1 is within
\* radius of spot 1, which consumed it; both are within radius of spot 2,
\* which skipped point 1, listed first, and took point 2
C5_Witness ==
    /\ i = 2
    /\ NGt = 2
    /\ WithinRadius(1, 1) /\ ~WithinRadius(1, 2)
    /\ WithinRadius(2, 1) /\ WithinRadius(2, 2)
    /\ \A s \in 1..2, idx \in 1..2 : SameGene(s, idx)
    /\ nearby_indices = <<1, 2>>
    /\ matched_gt_indices = {1, 2}
    /\ true_positives = 2

(* C6: the false negatives are the ground-truth points left unconsumed      *)
(* after the loop: FN = number of ground-truth points - number of consumed  *)
(* ones, and TP + FN = number of ground-truth points.                       *)
C6_FalseNegativesAreUnconsumed ==
    pc = "done" =>
        /\ false_negatives = Cardinality((1..NGt) \ matched_gt_indices)
        /\ results.FN = false_negatives
        /\ results.TP + results.FN = NGt

\* one ground-truth point consumed, one left over
C6_Witness ==
    /\ pc = "done"
    /\ NGt = 2
    /\ Cardinality(matched_gt_indices) = 1
    /\ results.TP = 1
    /\ results.FN = 1

(* C25: every decoded spot is classified exactly once. After i iterations   *)
(* of the loop TP + FP = i, TP is the number of consumed ground-truth       *)
(* indices at every point of the loop, and the returned TP + FP is the      *)
(* number of decoded spots.                                                 *)
C25_EverySpotClassifiedOnce ==
    /\ true_positives + false_positives = i
    /\ true_positives = Cardinality(matched_gt_indices)
    /\ pc = "done" =>
        /\ results.TP + results.FP = Len(qi2lab_coords)
        /\ results_sweep.TP + results_sweep.FP = Len(qi2lab_coords)

\* a finished run that counted both a true and a false positive
C25_Witness ==
    /\ pc = "done"
    /\ Len(qi2lab_coords) >= 2
    /\ results.TP >= 1
    /\ results.FP >= 1
    /\ Cardinality(matched_gt_indices) = results.TP

----------------------------------------------------------------------------
(* Properties of the decoding drivers, checked under SpecDecode.            *)

\* the driver is at a call of decode_one_tile or decode_all_tiles
DecodeRequested ==
    \/ decode_script = "view_decoded_tile" /\ decode_pc = "constructed"
    \/ decode_script \in {"04_pixeldecode", "sweep_f1"} /\ decode_pc = "optimized"

(* C7: a decode request made while the datastore holds no usable            *)
(* normalization vector ends with NotCalibratedError at the caller and      *)
(* leaves every tile where it was; no tile is ever normalized or decoded    *)
(* without a usable normalization vector.                                   *)
C7_NotCalibratedError ==
    /\ [][(DecodeRequested /\ ~Calibrated(normalization) /\ decode_pc' # decode_pc)
            => /\ decode_pc' = "raised"
               /\ decode_raised' = "NotCalibratedError"
               /\ tile_stage' = tile_stage]_vars
    /\ [](\A t \in DecodeTiles :
            tile_stage[t] # "UNPROCESSED" => Calibrated(normalization))
    /\ [](decode_pc = "raised" <=> decode_raised = "NotCalibratedError")

\* view_decoded_tile on a datastore that was never calibrated
C7_Witness ==
    /\ decode_script = "view_decoded_tile"
    /\ normalization = "none"
    /\ decode_pc = "raised"
    /\ decode_raised = "NotCalibratedError"

(* C8: a tile only ever moves to the next stage of UNPROCESSED, NORMALIZED, *)
(* DECODED, FILTERED, PERSISTED, and in decode_pixels decode_all_tiles      *)
(* starts only once optimize_normalization_by_decoding has returned.        *)
C8_StageOrder ==
    /\ [][\A t \in DecodeTiles :
            tile_stage'[t] # tile_stage[t] =>
                StageIndex(tile_stage'[t]) = StageIndex(tile_stage[t]) + 1]_vars
    /\ [][(decode_pc # "decoding_all" /\ decode_pc' = "decoding_all")
            => decode_pc = "optimized" /\ Calibrated(normalization)]_vars
    /\ [](decode_pc \in {"start", "constructed", "global_normalized", "optimizing"}
            => \A t \in DecodeTiles : tile_stage[t] = "UNPROCESSED")

\* decode_all_tiles of 04_pixeldecode.py at work: one tile persisted,
\* another filtered, a third still unprocessed
C8_Witness ==
    /\ decode_script = "04_pixeldecode"
    /\ decode_pc = "decoding_all"
    /\ tile_stage[1] = "PERSISTED"
    /\ tile_stage[2] = "FILTERED"
    /\ tile_stage[NumDecodeTiles] = "UNPROCESSED"

----------------------------------------------------------------------------
(* Properties of the registration drivers, checked under SpecReg.           *)

(* C9: global_register_data loads the registered images only after local   *)
(* registration of every tile has completed: LocalRegistered is true and    *)
(* every tile has a registered image.                                       *)
C9_GlobalAfterLocal ==
    reg_pc = "g_load" =>
        datastore_state.LocalRegistered /\ registered_images = Tiles

(* C10: fusion starts only after the loop has saved the global transform of *)
(* every tile, and it fuses every tile under translation_registered, the    *)
(* key the saved transforms were read from.                                 *)
C10_FusionAfterAllTransforms ==
    fused # NoFusion =>
        /\ tile_idx = NumTiles
        /\ Len(msims) = NumTiles
        /\ \A k \in 1..Len(msims) :
            /\ "translation_registered" \in TransformKeys(msims[k])
            /\ global_coord_xforms[k].saved
            /\ global_coord_xforms[k].affine =
                    msims[k].transforms["translation_registered"]
        /\ fused.transform_key = "translation_registered"
        /\ fused.views = Tiles

\* the igfl_abberior driver has just fused all its tiles
C10_Witness ==
    /\ reg_script = "igfl_abberior"
    /\ reg_pc = "g_save_fused"
    /\ fused.views = Tiles
    /\ \A t \in Tiles : global_coord_xforms[t].saved

----------------------------------------------------------------------------
(* Properties of the conversion scripts, checked under SpecConvert.         *)

\* the Z, Y, X shape every saved image is expected to have
ExpectedZYX == Tail(correct_shape)

\* convert_data is about to run the loop body for (round_idx, conv_tile_idx)
ConvertingData ==
    /\ conv_script = "convert_data"
    /\ conv_pc = "loop"
    /\ round_idx \in Rounds(conv_script)

\* the loop body ran for (round_idx, conv_tile_idx) and saved zero-filled
\* images of the expected shape for the fiducial and for every readout dye
SavedZeros ==
    /\ Len(fiducial_saves') = Len(fiducial_saves) + 1
    /\ LET f == fiducial_saves'[Len(fiducial_saves')]
       IN f.zeros /\ f.shape = ExpectedZYX
            /\ f.tile = conv_tile_idx /\ f.round = round_idx
    /\ Len(readout_saves') = Len(readout_saves) + Len(dye_order) - 1
    /\ \A k \in (Len(readout_saves) + 1)..Len(readout_saves') :
            /\ readout_saves'[k].zeros
            /\ readout_saves'[k].shape = ExpectedZYX
            /\ readout_saves'[k].tile = conv_tile_idx

\* the conversion goes on: the loop is at the next (round, tile)
GoesOn ==
    /\ conv_pc' = "loop"
    /\ <<round_idx', conv_tile_idx'>> # <<round_idx, conv_tile_idx>>

\* C11: in convert_data, an image read with another shape than correct_shape
\* is replaced by a zero-filled image of the expected shape and the loop goes
\* on to the next (round, tile); every image saved to the datastore has the
\* expected Z, Y, X shape.
C11_ShapeMismatchIsZeroFilled ==
    /\ [](conv_script = "convert_data" =>
            /\ \A k \in DOMAIN fiducial_saves : fiducial_saves[k].shape = ExpectedZYX
            /\ \A k \in DOMAIN readout_saves : readout_saves[k].shape = ExpectedZYX)
    /\ [][(ConvertingData /\ image_file.exists
            /\ Imread(image_file).shape # correct_shape)
          => (SavedZeros /\ GoesOn)]_vars

\* a zero-filled replacement was saved for the first tile and the conversion
\* went on to save the image read for the next one
C11_Witness ==
    /\ conv_script = "convert_data"
    /\ Len(fiducial_saves) >= 2
    /\ fiducial_saves[1].zeros /\ fiducial_saves[1].shape = ExpectedZYX
    /\ ~fiducial_saves[2].zeros
    /\ \E k \in DOMAIN readout_saves : readout_saves[k].zeros

\* C12: in convert_data, a missing image is replaced by a zero-filled image
\* of the expected shape and the run goes on with the other rounds and tiles.
C12_MissingImageIsZeroFilled ==
    [][(ConvertingData /\ ~image_file.exists) => (SavedZeros /\ GoesOn)]_vars

\* the (tile, round) pairs of the conversion that ran
TileRounds == ConvTiles(conv_script) \X Rounds(conv_script)

\* number of fiducial images saved for a (tile, round) pair
FiducialCount(tr) ==
    Cardinality({k \in DOMAIN fiducial_saves :
                    fiducial_saves[k].tile = tr[1] /\ fiducial_saves[k].round = tr[2]})

\* C18: the fiducial image is never saved twice for a (tile, round) pair, is
\* saved only for tiles 0..num_tiles-1 and rounds 0..num_rounds-1, and once
\* the conversion has returned it has been saved exactly once for each pair.
C18_OneFiducialPerTileAndRound ==
    /\ \A k \in DOMAIN fiducial_saves :
            <<fiducial_saves[k].tile, fiducial_saves[k].round>> \in TileRounds
    /\ \A tr \in TileRounds : FiducialCount(tr) <= 1
    /\ conv_pc = "done" => \A tr \in TileRounds : FiducialCount(tr) = 1

\* convert_data returned after going through several rounds and tiles
C18_Witness ==
    /\ conv_script = "convert_data"
    /\ conv_pc = "done"
    /\ Len(fiducial_saves) = NumRounds * NumConvTiles
    /\ Len(fiducial_saves) > 1

\* the bit indices under which readout images of a tile were saved
BitsOf(tile) ==
    {readout_saves[k].bit : k \in {j \in DOMAIN readout_saves :
                                        readout_saves[j].tile = tile}}

\* C19: once the conversion has returned, no two (round, dye) pairs of a
\* tile were saved under the same bit index, and the bit indices of every
\* tile are exactly 0..num_bits-1.
C19_BitIndicesUniqueAndComplete ==
    conv_pc = "done" =>
        \A tile \in ConvTiles(conv_script) :
            /\ \A j, k \in DOMAIN readout_saves :
                    (/\ readout_saves[j].tile = tile
                     /\ readout_saves[k].tile = tile
                     /\ readout_saves[j].bit = readout_saves[k].bit) => j = k
            /\ BitsOf(tile) = 0..(num_bits - 1)

\* the readout saves of a (tile, round) pair made for a dye
ReadoutSavesOf(tr, dye) ==
    {k \in DOMAIN readout_saves :
        /\ readout_saves[k].tile = tr[1]
        /\ readout_saves[k].round = tr[2]
        /\ readout_saves[k].dye = dye}

\* C30: once convert_data has returned, for every (tile, round) the fiducial
\* image saved is the DAPI channel, every other dye of the table was saved
\* exactly once as a readout, under the bit index experiment_order[round,
\* dye column] - 1, and DAPI was never saved as a readout, wherever the
\* DAPI column stands in the table.
C30_EveryDyeSavedOnce ==
    (conv_script = "convert_data" /\ conv_pc = "done") =>
        \A tr \in TileRounds :
            /\ \A k \in DOMAIN fiducial_saves : fiducial_saves[k].dye = "DAPI"
            /\ ReadoutSavesOf(tr, "DAPI") = {}
            /\ \A col \in DOMAIN dye_order :
                dye_order[col] # "DAPI" =>
                    /\ Cardinality(ReadoutSavesOf(tr, dye_order[col])) = 1
                    /\ \A k \in ReadoutSavesOf(tr, dye_order[col]) :
                        readout_saves[k].bit
                            = experiment_order[tr[2] + 1][col] - 1

----------------------------------------------------------------------------
(* Further properties of the registration drivers, checked under SpecReg.   *)

\* a registration.register call is made on the views msims
Registering == reg_pc = "g_register" /\ reg_stage' = reg_stage + 1

\* C13: a registration.register call discards no view: every view keeps its
\* tile and gets, under the new key, either the alignment found from its
\* prior or, when the quality filter rejects it, the prior itself.  When
\* global_register_data has saved the fused image, every tile has a saved
\* global transform, the one of its view, and every tile was fused.
C13_RejectedTileKeepsPrior ==
    /\ [][Registering =>
            LET stage == RegistrationStages(reg_script)[reg_stage + 1]
            IN /\ Len(msims') = Len(msims)
               /\ \A k \in 1..Len(msims) :
                    LET prior == msims[k].transforms[stage.transform_key]
                        new == msims'[k].transforms[stage.new_transform_key]
                    IN /\ msims'[k].tile_id = msims[k].tile_id
                       /\ new \in {prior, Append(prior, stage.registration_binning)}]_vars
    /\ [](reg_pc = "g_max_proj" =>
            /\ \A t \in Tiles :
                /\ global_coord_xforms[t].saved
                /\ global_coord_xforms[t].affine =
                        msims[t].transforms["translation_registered"]
            /\ fused.views = Tiles)

\* global_register_data is through: one tile was rejected by every quality
\* filter and stays at its stage position, another was aligned, both are
\* saved and fused
C13_Witness ==
    /\ reg_pc = "g_max_proj"
    /\ \E t, u \in Tiles :
        /\ global_coord_xforms[t].saved
        /\ global_coord_xforms[t].affine = StagePosition
        /\ global_coord_xforms[u].saved
        /\ global_coord_xforms[u].affine # StagePosition
    /\ fused.views = Tiles

\* the datastore content local registration writes
LocalRegistrationState ==
    <<registered_images, register_computations, datastore_state.LocalRegistered>>

\* C15: with overwrite_registered=False, a tile that has a registered result
\* is never registered again: its stored result stays the one computed first
\* (every tile's registration is computed at most once), and a run of
\* local_register_data on a datastore that is already LocalRegistered leaves
\* the registered results and the flag as they are.
C15_LocalRegistrationIsMemoized ==
    /\ [](\A t \in Tiles :
            /\ register_computations[t] <= 1
            /\ t \in registered_images <=> register_computations[t] = 1)
    /\ [][\A t \in registered_images :
            /\ t \in registered_images'
            /\ register_computations'[t] = register_computations[t]]_vars
    /\ [][datastore_state.LocalRegistered =>
            LocalRegistrationState' = LocalRegistrationState]_vars

\* local_register_data runs a second time and register_all_tiles has gone
\* through tiles that were registered by the first run
C15_Witness ==
    /\ reg_pc = "l_register_all_tiles"
    /\ datastore_state.LocalRegistered
    /\ tiles_done = Tiles
    /\ \A t \in Tiles : register_computations[t] = 1

\* C20: once the datastore is flagged Fused, the saved per-tile global
\* transforms are not written again.
C20_TransformsImmutableOnceFused ==
    [][datastore_state.Fused => global_coord_xforms' = global_coord_xforms]_vars

\* the igfl_abberior driver is in its registration.register calls
RegisteringAbberior == reg_script = "igfl_abberior" /\ reg_pc = "g_register"

\* C22: global_register_data of igfl_abberior registers in two stages, one
\* after the other: the first at binning (3, 9, 9) from the stage-position
\* transform, the second at binning (1, 3, 3) from the transform the first
\* stage gave; the quality filter is on in both, so a view keeps its prior
\* where it rejects; the transform saved for a tile is that of the second
\* stage.
C22_CoarseToFineRegistration ==
    /\ [](reg_script = "igfl_abberior" =>
            /\ Len(RegistrationStages(reg_script)) = 2
            /\ \A k \in 1..2 :
                RegistrationStages(reg_script)[k].post_registration_do_quality_filter)
    /\ [][RegisteringAbberior => reg_stage' \in {reg_stage, reg_stage + 1}]_vars
    /\ [][(RegisteringAbberior /\ reg_stage = 0 /\ reg_stage' = 1) =>
            \A k \in 1..Len(msims) :
                /\ msims[k].transforms["stage_metadata"] = StagePosition
                /\ msims'[k].transforms["translation_registered_3x"]
                        \in {StagePosition, Append(StagePosition, <<3, 9, 9>>)}]_vars
    /\ [][(RegisteringAbberior /\ reg_stage = 1 /\ reg_stage' = 2) =>
            \A k \in 1..Len(msims) :
                LET coarse == msims[k].transforms["translation_registered_3x"]
                IN /\ msims'[k].transforms["translation_registered_3x"] = coarse
                   /\ msims'[k].transforms["translation_registered"]
                        \in {coarse, Append(coarse, <<1, 3, 3>>)}]_vars
    /\ [][reg_script = "igfl_abberior" =>
            \A t \in Tiles :
                global_coord_xforms'[t] # global_coord_xforms[t] =>
                    /\ reg_stage = 2
                    /\ global_coord_xforms'[t].affine
                        = msims[t].transforms["translation_registered"]]_vars

\* igfl_abberior saved the transforms: one tile was aligned at both stages,
\* another was aligned at the first and rejected at the second
C22_Witness ==
    /\ reg_script = "igfl_abberior"
    /\ reg_pc = "g_update_state"
    /\ \E t, u \in Tiles :
        /\ global_coord_xforms[t].saved
        /\ global_coord_xforms[t].affine = << <<3, 9, 9>>, <<1, 3, 3>> >>
        /\ global_coord_xforms[u].saved
        /\ global_coord_xforms[u].affine = << <<3, 9, 9>> >>

----------------------------------------------------------------------------
(* Properties of calculate_F1, checked under SpecGroundTruth.               *)

----------------------------------------------------------------------------
(* Properties of the datastore's stage flags, checked under SpecPipeline.   *)

Flags == DOMAIN NewDatastoreState

\* a step raises the flag
Raised(flag) == ~datastore_state[flag] /\ datastore_state'[flag]

\* every (tile, round) image of the conversion has been written
ConversionComplete ==
    /\ round_idx \notin Rounds(conv_script)
    /\ \A tr \in TileRounds :
        /\ FiducialCount(tr) = 1
        /\ \E k \in DOMAIN readout_saves :
            readout_saves[k].tile = tr[1] /\ readout_saves[k].round = tr[2]

\* every tile's global transform and the fused image have been saved
GlobalRegistrationComplete ==
    /\ \A t \in Tiles : global_coord_xforms[t].saved
    /\ tile_idx = NumTiles
    /\ fused # NoFusion
    /\ global_fiducial_image

C29_FlagsMonotoneAndFramed ==
    /\ [][\A flag \in Flags : datastore_state[flag] => datastore_state'[flag]]_vars
    /\ [][datastore_state' # datastore_state =>
            \/ /\ conv_pc = "calibrations"
               /\ datastore_state' = [datastore_state EXCEPT !.Calibrations = TRUE]
            \/ /\ conv_pc' = "done"
               /\ datastore_state' = [datastore_state EXCEPT !.Corrected = TRUE]
            \/ /\ reg_pc = "l_update_state"
               /\ datastore_state' = [datastore_state EXCEPT !.LocalRegistered = TRUE]
            \/ /\ reg_pc = "g_update_state"
               /\ datastore_state' = [datastore_state EXCEPT !.GlobalRegistered = TRUE,
                                                             !.Fused = TRUE]]_vars

\* a conversion script ran again on a datastore the whole pipeline had run
\* on, and returned: every flag is still set
C29_Witness ==
    /\ conv_pc = "done"
    /\ fiducial_saves # <<>>
    /\ datastore_state = FusedDatastoreState

----------------------------------------------------------------------------
(* Properties of sweep_decode_params, checked under SpecSweep.              *)

\* the key of the configuration the loops are at
CurrentKey == ParamsKey(spotmap_values[spotmap_idx + 1], mag_values[mag_idx + 1])

\* the keys of all the configurations of the sweep
AllKeys ==
    {ParamsKey(spotmap_values[a], mag_values[b]) :
        a \in 1..Len(spotmap_values), b \in 1..Len(mag_values)}

\* C14: an exception of decode_pixels or calculate_F1 never leaves
\* sweep_decode_params: it becomes the error result of the configuration it
\* was raised for, which is recorded under that configuration's key without
\* touching the results of the others, and the loops go on; the sweep ends,
\* and when it does results holds one result for every configuration.
C14_SweepCatchesPerConfiguration ==
    /\ [](sweep_pc # "raised")
    /\ [][(sweep_pc = "decode_pixels" \/ sweep_pc = "calculate_F1") =>
            /\ <<spotmap_idx', mag_idx', sweep_results'>>
                    = <<spotmap_idx, mag_idx, sweep_results>>
            /\ (result'.error \in SweepExceptions => sweep_pc' = "record")]_vars
    /\ [][sweep_pc = "record" =>
            /\ DOMAIN sweep_results' = DOMAIN sweep_results \cup {CurrentKey}
            /\ sweep_results'[CurrentKey] = result
            /\ \A k \in DOMAIN sweep_results \ {CurrentKey} :
                    sweep_results'[k] = sweep_results[k]
            /\ results_file' = sweep_results']_vars
    /\ [](sweep_pc = "done" =>
            /\ DOMAIN sweep_results = AllKeys
            /\ results_file = sweep_results)
    /\ <>(sweep_pc = "done")

\* the sweep ended: the first configuration raised, a later one was decoded
\* and scored, and both are in results
C14_Witness ==
    /\ sweep_pc = "done"
    /\ sweep_results[ParamsKey(spotmap_values[1], mag_values[1])].error
            \in SweepExceptions
    /\ sweep_results[ParamsKey(spotmap_values[Len(spotmap_values)],
                               mag_values[Len(mag_values)])].scores

\* the swept configurations differ in a parameter
Varies(param) == \E a, b \in DOMAIN results_file : a[param] # b[param]

\* the bold cells of the heatmap are the scored configurations of largest F1
BoldIsMaximumF1 ==
    /\ highlighted # {}
    /\ highlighted \subseteq Scored(results_file)
    /\ \A k \in Scored(results_file) :
        k \in highlighted <=>
            \A h \in Scored(results_file) : results_file[h].f1 <= results_file[k].f1

\* C21 as stated: the sweep varies the magnitude threshold, the
\* spot-pixel-count and the spotmap threshold, and the configuration of
\* largest F1 among the swept ones is selected.
C21_Original ==
    sweep_pc = "plotted" =>
        /\ Varies("mag_thresh")
        /\ Varies("min_pixels")
        /\ Varies("spotmap_threshold")
        /\ BoldIsMaximumF1

\* C21: the sweep varies the magnitude threshold and the spotmap threshold
\* while min_pixels stays 9 and fdr 0.05 in every configuration, and the
\* F1 heatmap draws in bold exactly the scored configurations whose F1 is
\* the largest among all scored configurations.
C21_SweepHighlightsMaximumF1 ==
    sweep_pc = "plotted" =>
        /\ Varies("mag_thresh")
        /\ Varies("spotmap_threshold")
        /\ \A k \in DOMAIN results_file : k.min_pixels = 9 /\ k.fdr = 5
        /\ BoldIsMaximumF1

\* the heatmap is drawn: one configuration ended with an error, two were
\* scored with different F1, and only the better is in bold
C21_Witness ==
    /\ sweep_pc = "plotted"
    /\ \E k \in DOMAIN results_file : results_file[k].error \in SweepExceptions
    /\ \E k, h \in Scored(results_file) :
        /\ results_file[k].f1 < results_file[h].f1
        /\ h \in highlighted
        /\ k \notin highlighted

\* C27: after the sweep, results has one entry for every (spotmap,
\* magnitude) pair of the sweep: |spotmap_values| x |mag_values| entries.
C27_OneResultPerConfiguration ==
    sweep_pc = "done" =>
        Cardinality(DOMAIN sweep_results) = Len(spotmap_values) * Len(mag_values)

\* C28: calculate_F1 runs only on the decoded spots of the configuration
\* the loops are at; a configuration whose decode_pixels raised goes to the
\* recording with an error result; every recorded result is either an error
\* entry without metrics or a metrics entry, without error, computed from
\* the decoded spots of its own configuration.
C28_ScoredAgainstOwnDecoding ==
    /\ [](sweep_pc = "calculate_F1" => decoded_table = CurrentKey)
    /\ [][(sweep_pc = "decode_pixels" /\ sweep_pc' # "calculate_F1") =>
            /\ sweep_pc' = "record"
            /\ result'.error = "decode_pixels raised"
            /\ ~result'.scores]_vars
    /\ [](\A k \in DOMAIN sweep_results :
            \/ /\ sweep_results[k].error \in SweepExceptions
               /\ ~sweep_results[k].scores
            \/ /\ sweep_results[k].error = "none"
               /\ sweep_results[k].scores
               /\ sweep_results[k].spots_of = k)

\* decode_pixels raised while the datastore still holds the decoded spots of
\* an earlier configuration, which was scored: the error result is about to
\* be recorded
C28_Witness ==
    /\ sweep_pc = "record"
    /\ result.error = "decode_pixels raised"
    /\ decoded_table # NoTable
    /\ decoded_table # CurrentKey
    /\ decoded_table \in Scored(sweep_results)

----------------------------------------------------------------------------
(* Properties of the per-pixel decoding and of the FDR filtering, checked   *)
(* under SpecPixel.                                                         *)

\* the matching score of a pixel's vector with a barcode: the cosine of the
\* angle between them
MatchingScore(v, b) == Ratio(Dot(v, b), Norm(v) * Norm(b))

\* C16: every decoded spot carries the id of a codebook row whose matching
\* score with the pixel's intensity vector is the largest of all rows, and
\* the pixel's magnitude reaches magnitude_threshold.
C16_GeneIdHasMaximumScore ==
    \A k \in DOMAIN decoded_spots :
        LET spot == decoded_spots[k]
            v == pixel_vectors[spot.pixel]
        IN /\ spot.gene_id \in DOMAIN Codebook
           /\ \A h \in DOMAIN Codebook :
                LessEq(MatchingScore(v, Codebook[h]),
                       MatchingScore(v, Codebook[spot.gene_id]))
           /\ LessEq(magnitude_threshold, Int2Q(spot.magnitude))

\* the tile is decoded: one pixel gave a spot whose barcode scores strictly
\* better than every other, another pixel fell under magnitude_threshold
C16_Witness ==
    /\ pixel_stage = "DECODED"
    /\ Len(decoded_spots) >= 1
    /\ Len(decoded_spots) < Len(pixel_vectors)
    /\ \E k \in DOMAIN decoded_spots :
        \A h \in DOMAIN Codebook \ {decoded_spots[k].gene_id} :
            ~LessEq(MatchingScore(pixel_vectors[decoded_spots[k].pixel],
                                  Codebook[decoded_spots[k].gene_id]),
                    MatchingScore(pixel_vectors[decoded_spots[k].pixel],
                                  Codebook[h]))

\* the retained spots whose gene id is not what the pixel holds
FalsePositives(spots) ==
    SelectSeq(spots, LAMBDA spot : spot.gene_id # true_gene_ids[spot.pixel])

\* the lowest magnitude among the spots
LowestMagnitude(spots) ==
    CHOOSE c \in {spots[k].magnitude : k \in DOMAIN spots} :
        \A k \in DOMAIN spots : c <= spots[k].magnitude

====
